---- MODULE Spec2Model ----
(***************************************************************************)
(* Streaming core of iota: the EventStream queue with its terminal-result  *)
(* promise, the StreamController that builds the draft assistant message,  *)
(* and the provider adapters that drive it from a vendor wire sequence.    *)
(*                                                                         *)
(* Scheduling follows JavaScript's run-to-completion rule: every action is *)
(* one synchronous segment of code between two awaits.                     *)
(***************************************************************************)
EXTENDS Integers, Sequences, FiniteSets, TLC

\* ------------------------------------------------------------- bounds
\* vendor wire events handled by one adapter call nobody iterates meanwhile
MaxWire == 3
\* vendor wire events handled by one adapter call a consumer iterates
\* concurrently (the consumer's steps interleave with every adapter step)
MaxDrainWire == 2
\* vendor block / item indices are 0..MaxBlock-1
MaxBlock == 1
\* push()/end() calls issued by the free producer of SpecES
MaxOps == 4
\* consumers that may iterate one EventStream
NumConsumers == 2
\* vendor events of a call in the liveness specification
MaxLiveWire == 2
\* turns of an agent run in which the model may call tools
MaxTurns == 1
\* tool calls the model issues in one agent run nobody iterates meanwhile
MaxCalls == 2
\* tool calls the model issues in one agent run a consumer iterates
MaxDrainCalls == 1
\* events the assistant streams of one agent run yield before they end
MaxInner == 1
\* messages of a conversation given to normalizeContextForTarget
MaxMessages == 2
\* times a conversation is normalized in a row
MaxReapply == 2
\* tokens of the argument text of one tool call
MaxJson == 3
\* usage reports of a vendor within one call
MaxReports == 2

Consumers == 1..NumConsumers
Blocks == 0..(MaxBlock - 1)

\* ------------------------------------------------------------- values
Undefined == "undefined"
\* an optional value: <<>> is absent (undefined), <<x>> is x
None == <<>>
Some(x) == <<x>>
\* the promise a suspended consumer awaits, not yet resolved
Pending == [settled |-> FALSE, done |-> FALSE, value |-> None]
\* IteratorResult handed to a waiter
IterValue(event) == [settled |-> TRUE, done |-> FALSE, value |-> Some(event)]
IterDone == [settled |-> TRUE, done |-> TRUE, value |-> None]

\* emptyUsage(): all token counts zero
emptyUsage == 0
\* token totals a vendor may report
ReportedUsage == {5}

NoMessage == [stopReason |-> "none", errorMessage |-> Undefined,
              usage |-> emptyUsage, content |-> <<>>]

\* AssistantStreamEvent; message is the final message of done/error events
Event(type, index, message) == [type |-> type, index |-> index, message |-> message]

VARIABLES
    stream,     \* the EventStream: queue, waiting, done, finalResult, wake
    cpc,        \* per consumer: position in the async generator
    received,   \* per consumer: the events its iteration has yielded so far
    trace,      \* history: the events push() accepted, in order
    ops,        \* history: the calls the free producer made, in order
    adapter,    \* which provider adapter runs this call ("none": bare stream)
    pc,         \* position of the adapter's async task
    output,     \* the draft AssistantMessage the adapter mutates
    local,      \* the adapter's local bookkeeping (block -> part index, ...)
    aborted,    \* options.signal.aborted
    reasoning,  \* options.reasoning, the resolved reasoning effort
    wire,       \* number of vendor wire events handled with an effect
    outcome,    \* how the caller's resultOrThrow() promise settled, if it has
    invoked,    \* history: the tool handler invocations of an agent run, in order
    args,       \* the arguments of a library function call, if one is made
    returned    \* what the library function returned (or threw), if it has

vars == <<stream, cpc, received, trace, ops, adapter, pc, output, local, aborted,
          reasoning, wire, outcome, invoked, args, returned>>

\* ------------------------------------------------------- EventStream
Range(s) == {s[i] : i \in DOMAIN s}

\* AssistantStream / AgentStream constructor: the completion predicate
isComplete(event) == event.type = "done" \/ event.type = "error"

extractResultBlank(event) == NoMessage

\* AssistantStream constructor: the extractor (e.message / e.error)
extractResult(event) == event.message

\* a promise settles once: later resolve() calls change nothing
resolveFinalResult(current, result) ==
    IF current = None THEN Some(result) ELSE current

\* new EventStream()
NewStream ==
    [queue |-> <<>>, waiting |-> <<>>, done |-> FALSE, finalResult |-> None,
     wake |-> [c \in Consumers |-> Pending]]

pushNoGuard(s, event) ==
    LET s1 == IF isComplete(event)
              THEN [s EXCEPT !.done = TRUE,
                             !.finalResult = resolveFinalResult(@, extractResult(event))]
              ELSE s
    IN  IF s1.waiting # <<>>
        THEN [s1 EXCEPT !.waiting = Tail(@),
                        !.wake[Head(s1.waiting)] = IterValue(event)]
        ELSE [s1 EXCEPT !.queue = Append(@, event)]

pushLifo(s, event) ==
    IF s.done THEN s
    ELSE LET s1 == IF isComplete(event)
                   THEN [s EXCEPT !.done = TRUE,
                                  !.finalResult = resolveFinalResult(@, extractResult(event))]
                   ELSE s
         IN  IF s1.waiting # <<>>
             THEN [s1 EXCEPT !.waiting = Tail(@),
                             !.wake[Head(s1.waiting)] = IterValue(event)]
             ELSE [s1 EXCEPT !.queue = <<event>> \o @]

pushNewestWaiter(s, event) ==
    IF s.done THEN s
    ELSE LET s1 == IF isComplete(event)
                   THEN [s EXCEPT !.done = TRUE,
                                  !.finalResult = resolveFinalResult(@, extractResult(event))]
                   ELSE s
         IN  IF s1.waiting # <<>>
             THEN [s1 EXCEPT !.waiting = SubSeq(@, 1, Len(@) - 1),
                             !.wake[s1.waiting[Len(s1.waiting)]] = IterValue(event)]
             ELSE [s1 EXCEPT !.queue = Append(@, event)]

\* EventStream.push
push(s, event) ==
    IF s.done THEN s ELSE pushNoGuard(s, event)

endKeepWaiters(s, result) ==
    [s EXCEPT !.done = TRUE,
              !.finalResult = IF result # None
                              THEN resolveFinalResult(@, result[1]) ELSE @]

\* EventStream.end
end(s, result) ==
    [s EXCEPT !.done = TRUE,
              !.finalResult = IF result # None
                              THEN resolveFinalResult(@, result[1]) ELSE @,
              !.waiting = <<>>,
              !.wake = [c \in Consumers |->
                          IF c \in Range(s.waiting)
                          THEN IterDone
                          ELSE s.wake[c]]]

RECURSIVE pushAll(_, _)
\* several push() calls of one synchronous segment
pushAll(s, events) ==
    IF events = <<>> THEN s ELSE pushAll(push(s, Head(events)), Tail(events))

RECURSIVE accepted(_, _)
\* history: the events of a segment that push() did not drop
accepted(s, events) ==
    IF events = <<>> THEN <<>>
    ELSE (IF s.done THEN <<>> ELSE <<Head(events)>>)
         \o accepted(push(s, Head(events)), Tail(events))

\* ------------------------------------------- EventStream[Symbol.asyncIterator]
\* a consumer calls iterator.next(): the generator runs from the loop top
\* to its next yield, return or await
IterNext(c) ==
    /\ pc # "idle"
    /\ cpc[c] = "top"
    /\ IF stream.queue # <<>>
       THEN /\ received' = [received EXCEPT ![c] = Append(@, Head(stream.queue))]
            /\ stream' = [stream EXCEPT !.queue = Tail(@)]
            /\ UNCHANGED cpc
       ELSE IF stream.done
       THEN /\ cpc' = [cpc EXCEPT ![c] = "returned"]
            /\ UNCHANGED <<stream, received, args, returned>>
       ELSE /\ stream' = [stream EXCEPT !.waiting = Append(@, c),
                                        !.wake[c] = Pending]
            /\ cpc' = [cpc EXCEPT ![c] = "awaiting"]
            /\ UNCHANGED received
    /\ UNCHANGED <<trace, ops, adapter, pc, output, local, aborted, reasoning, wire, outcome, invoked,
                   args, returned>>

\* the awaited promise has been resolved by push() or end(): the generator
\* resumes and yields the value or returns
IterResume(c) ==
    /\ cpc[c] = "awaiting"
    /\ stream.wake[c] # Pending
    /\ IF stream.wake[c].done
       THEN /\ cpc' = [cpc EXCEPT ![c] = "returned"]
            /\ UNCHANGED received
       ELSE /\ cpc' = [cpc EXCEPT ![c] = "top"]
            /\ received' = [received EXCEPT ![c] = Append(@, stream.wake[c].value[1])]
    /\ stream' = [stream EXCEPT !.wake[c] = Pending]
    /\ UNCHANGED <<trace, ops, adapter, pc, output, local, aborted, reasoning, wire, outcome, invoked,
                   args, returned>>

\* ------------------------------------------------ bare stream, free producer
\* events the free producer pushes: numbered, so loss, duplication and
\* reordering are visible
ProducerEvent(n, kind) ==
    IF kind = "complete"
    THEN Event("done", n, [NoMessage EXCEPT !.stopReason = "stop"])
    ELSE Event("part_delta", n, NoMessage)

ProducerPush(kind) ==
    /\ adapter = "none"
    /\ Len(ops) < MaxOps
    /\ LET e == ProducerEvent(Len(ops), kind)
       IN  /\ stream' = push(stream, e)
           /\ trace' = trace \o accepted(stream, <<e>>)
    /\ ops' = Append(ops, kind)
    /\ UNCHANGED <<cpc, received, adapter, pc, output, local, aborted, reasoning, wire, outcome, invoked,
                   args, returned>>

ProducerEnd(result) ==
    /\ adapter = "none"
    /\ Len(ops) < MaxOps
    /\ stream' = end(stream, result)
    /\ ops' = Append(ops, "end")
    /\ UNCHANGED <<cpc, received, trace, adapter, pc, output, local, aborted, reasoning, wire, outcome, invoked,
                   args, returned>>

NewOutput ==
    [content |-> <<>>, stopReason |-> "stop", usage |-> emptyUsage,
     errorMessage |-> Undefined]

InitES ==
    /\ stream = NewStream
    /\ \E n \in Consumers :
         cpc = [c \in Consumers |-> IF c <= n THEN "top" ELSE "unused"]
    /\ received = [c \in Consumers |-> <<>>]
    /\ trace = <<>>
    /\ ops = <<>>
    /\ adapter = "none"
    /\ pc = "bare"
    /\ output = NewOutput
    /\ local = <<>>
    /\ aborted = FALSE
    /\ reasoning = "none"
    /\ wire = 0
    /\ outcome = None
    /\ invoked = <<>>
    /\ args = None
    /\ returned = None

NextES ==
    \/ \E kind \in {"event", "complete"} : ProducerPush(kind)
    \/ \E result \in {None, Some([NoMessage EXCEPT !.stopReason = "error"])} :
         ProducerEnd(result)
    \/ \E c \in Consumers : IterNext(c)
    \/ \E c \in Consumers : IterResume(c)

SpecES == InitES /\ [][NextES]_vars

FairSpecES ==
    /\ SpecES
    /\ \A c \in Consumers : WF_vars(IterNext(c)) /\ WF_vars(IterResume(c))

\* ------------------------------------------------------- StreamController
\* the controller's state as one value, so that the calls of one
\* synchronous segment compose: the draft, the stream and the history
K == [output |-> output, stream |-> stream, trace |-> trace]

Commit(k) ==
    /\ output' = k.output
    /\ stream' = k.stream
    /\ trace' = k.trace

\* this.stream.push(event)
emit(k, event) ==
    [k EXCEPT !.stream = push(k.stream, event),
              !.trace = k.trace \o accepted(k.stream, <<event>>)]

\* AssistantPart: text counts the deltas appended, meta is the round-trip
\* metadata (thinking signature) being present
Part(type) == [type |-> type, text |-> 0, meta |-> FALSE]

\* StreamController.start
start(k) == emit(k, Event("start", -1, NoMessage))

\* StreamController.addPart; the index is output.content.length - 1
addPart(k, part) ==
    LET k1 == [k EXCEPT !.output.content = Append(@, part)]
    IN  emit(k1, Event("part_start", Len(k1.output.content) - 1, NoMessage))

\* StreamController.delta
delta(k, index) == emit(k, Event("part_delta", index, NoMessage))

\* StreamController.endPart
endPart(k, index) == emit(k, Event("part_end", index, NoMessage))

\* event.partial as a consumer reads it: the events of start, addPart,
\* delta and endPart hold this.output itself, the one draft object of the
\* call, so a read gives the draft as it is at the time of the read
partial(event, draft) == draft

\* StreamController.setUsage
setUsage(k, usage) == [k EXCEPT !.output.usage = usage]

\* StreamController.setStopReason
setStopReason(k, stopReason) == [k EXCEPT !.output.stopReason = stopReason]

hasToolCall(content) == \E i \in DOMAIN content : content[i].type = "tool_call"

\* !final.errorMessage: undefined and the empty string are both falsy
falsy(text) == text = Undefined \/ text = ""

finishNoPromotion(k, signalAborted) ==
    LET o1 == IF signalAborted
              THEN [k.output EXCEPT
                      !.stopReason = "aborted",
                      !.errorMessage = IF @ = Undefined THEN "Request was aborted" ELSE @]
              ELSE k.output
        isError == o1.stopReason = "error" \/ o1.stopReason = "aborted"
        final == IF isError /\ falsy(o1.errorMessage)
                 THEN [o1 EXCEPT !.errorMessage = "Request failed"]
                 ELSE o1
        k1 == [k EXCEPT !.output = final]
        k2 == emit(k1, Event(IF isError THEN "error" ELSE "done", -1, final))
    IN  [k2 EXCEPT !.stream = end(@, None)]

\* StreamController.finish
finish(k, signalAborted) ==
    LET o1 == IF signalAborted
              THEN [k.output EXCEPT
                      !.stopReason = "aborted",
                      !.errorMessage = IF @ = Undefined THEN "Request was aborted" ELSE @]
              ELSE k.output
        o2 == [o1 EXCEPT !.stopReason = IF @ = Undefined THEN "stop" ELSE @]
        o3 == IF hasToolCall(o2.content) /\ o2.stopReason = "stop"
              THEN [o2 EXCEPT !.stopReason = "tool_use"]
              ELSE o2
        isError == o3.stopReason = "error" \/ o3.stopReason = "aborted"
        final == IF isError /\ falsy(o3.errorMessage)
                 THEN [o3 EXCEPT !.errorMessage = "Request failed"]
                 ELSE o3
        k1 == [k EXCEPT !.output = final]
        k2 == emit(k1, Event(IF isError THEN "error" ELSE "done", -1, final))
    IN  [k2 EXCEPT !.stream = end(@, None)]

failNoPush(k, signalAborted, message) ==
    [k EXCEPT !.output.stopReason = IF signalAborted THEN "aborted" ELSE "error",
              !.output.errorMessage = message,
              !.stream = end(@, None)]

failClearsDraft(k, signalAborted, message) ==
    LET final == [NewOutput EXCEPT
                    !.stopReason = IF signalAborted THEN "aborted" ELSE "error",
                    !.errorMessage = IF falsy(message) THEN "Request failed" ELSE message]
        k1 == [k EXCEPT !.output = final]
        k2 == emit(k1, Event("error", -1, final))
    IN  [k2 EXCEPT !.stream = end(@, None)]

\* StreamController.fail; message is error.message or String(error)
fail(k, signalAborted, message) ==
    LET o1 == [k.output EXCEPT
                 !.stopReason = IF signalAborted THEN "aborted" ELSE "error",
                 !.errorMessage = message]
        final == IF falsy(o1.errorMessage)
                 THEN [o1 EXCEPT !.errorMessage =
                         IF o1.stopReason = "aborted"
                         THEN "Request was aborted" ELSE "Request failed"]
                 ELSE o1
        k1 == [k EXCEPT !.output = final]
        k2 == emit(k1, Event("error", -1, final))
    IN  [k2 EXCEPT !.stream = end(@, None)]

\* ------------------------------------------------------- vendor inputs
\* one vendor wire event
Wire(type, index, kind) == [type |-> type, index |-> index, kind |-> kind]

\* messages of the errors a vendor client or the adapter's own code throws
ErrorTexts == {"", "boom"}

\* what handling one wire event leaves behind: the controller state, the
\* adapter's bookkeeping and the message of the error thrown, if any
R(k, l, thrown) == [k |-> k, l |-> l, thrown |-> thrown]
Ok(k, l) == R(k, l, None)
Throws(k, l, message) == R(k, l, Some(message))

usageReport == CHOOSE u \in ReportedUsage : TRUE

\* ------------------------------------------- streamAnthropic (StreamController)
AnthropicWire ==
    {Wire("message_start", 0, "")}
    \cup {Wire("content_block_start", b, kind) :
            b \in Blocks,
            kind \in {"text", "thinking", "tool_use", "redacted_thinking", "mcp_tool_use"}}
    \cup {Wire("content_block_delta", b, kind) :
            b \in Blocks,
            kind \in {"text_delta", "thinking_delta", "input_json_delta", "signature_delta"}}
    \cup {Wire("content_block_stop", b, "") : b \in Blocks}
    \cup {Wire("message_delta", 0, reason) :
            reason \in {"null", "end_turn", "max_tokens", "tool_use", "refusal", "bogus"}}

\* mapStopReason of providers/anthropic.ts
anthropicMapStopReason(reason) ==
    CASE reason = "end_turn" -> "stop"
      [] reason = "max_tokens" -> "length"
      [] reason = "tool_use" -> "tool_use"
      [] reason = "stop_sequence" -> "stop"
      [] OTHER -> "error"

\* the filter at the end of the vendor sequence: a thinking part survives
\* only with text and a thinking signature
anthropicKeepPart(p) == p.type # "thinking" \/ (p.text > 0 /\ p.meta)

NewAnthropicLocal == [contentIndexByBlockIndex |-> [b \in Blocks |-> -1]]

\* the body of the for-await loop for one wire event
anthropicHandle(k, l, event) ==
    LET idx == l.contentIndexByBlockIndex[event.index]
        part == k.output.content[idx + 1]
    IN
    CASE event.type = "message_start" -> Ok(setUsage(k, usageReport), l)
      [] event.type = "content_block_start" ->
           IF event.kind \in {"text", "thinking", "tool_use"}
           THEN LET type == IF event.kind = "tool_use" THEN "tool_call" ELSE event.kind
                    k1 == addPart(k, Part(type))
                IN  Ok(k1, [l EXCEPT !.contentIndexByBlockIndex[event.index] =
                                        Len(k1.output.content) - 1])
           ELSE Ok(k, l)
      [] event.type = "content_block_delta" ->
           IF idx = -1 THEN Ok(k, l)
           ELSE IF \/ event.kind = "text_delta" /\ part.type = "text"
                   \/ event.kind = "thinking_delta" /\ part.type = "thinking"
                THEN Ok(delta([k EXCEPT !.output.content[idx + 1].text = @ + 1], idx), l)
           ELSE IF event.kind = "input_json_delta" /\ part.type = "tool_call"
                THEN Ok(delta(k, idx), l)
           ELSE IF event.kind = "signature_delta" /\ part.type = "thinking"
                THEN Ok([k EXCEPT !.output.content[idx + 1].meta = TRUE], l)
           ELSE Ok(k, l)
      [] event.type = "content_block_stop" ->
           IF idx = -1 THEN Ok(k, l) ELSE Ok(endPart(k, idx), l)
      [] event.type = "message_delta" ->
           LET k1 == IF event.kind # "null"
                     THEN setStopReason(k, anthropicMapStopReason(event.kind))
                     ELSE k
           IN  Ok(setUsage(k1, usageReport), l)

\* the end of the vendor sequence: the thinking filter, then ctrl.finish()
anthropicEnd(k, signalAborted) ==
    finish([k EXCEPT !.output.content = SelectSeq(@, anthropicKeepPart)], signalAborted)

\* ---------------------- streamAnthropic, the revision with exhaustive switches
\* mapStopReason: an unknown value reaches exhaustive(), which throws
anthropicStrictStopReasons ==
    {"end_turn", "max_tokens", "tool_use", "stop_sequence", "pause_turn", "refusal"}

anthropicStrictMapStopReason(reason) ==
    CASE reason = "end_turn" -> "stop"
      [] reason = "max_tokens" -> "length"
      [] reason = "tool_use" -> "tool_use"
      [] OTHER -> "stop"

\* the switch over event.type: as above, except that a block type or a stop
\* reason without a case throws
anthropicStrictHandle(k, l, event) ==
    IF /\ event.type = "content_block_start"
       /\ event.kind \notin {"text", "thinking", "tool_use", "redacted_thinking",
                             "server_tool_use", "web_search_tool_result"}
    THEN Throws(k, l, "Unhandled case")
    ELSE IF event.type = "message_delta"
    THEN IF event.kind = "null" THEN Ok(setUsage(k, usageReport), l)
         ELSE IF event.kind \notin anthropicStrictStopReasons
         THEN Throws(k, l, "Unhandled case")
         ELSE Ok(setUsage(setStopReason(k, anthropicStrictMapStopReason(event.kind)),
                          usageReport), l)
    ELSE anthropicHandle(k, l, event)

\* --------------------------------------------- streamOpenAI (StreamController)
OpenAIWire ==
    {Wire("response.output_item.added", b, kind) :
        b \in Blocks, kind \in {"reasoning", "message", "function_call", "web_search_call"}}
    \cup {Wire(type, b, "") :
            b \in Blocks,
            type \in {"response.reasoning_summary_text.delta",
                      "response.reasoning_summary_part.done",
                      "response.output_text.delta",
                      "response.refusal.delta",
                      "response.function_call_arguments.delta"}}
    \cup {Wire("response.output_item.done", b, kind) :
            b \in Blocks, kind \in {"reasoning", "message", "function_call"}}
    \cup {Wire("response.completed", 0, status) :
            status \in {"undefined", "completed", "incomplete", "failed", "bogus"}}
    \cup {Wire("error", 0, ""), Wire("response.failed", 0, "")}

openaiStatuses == {"completed", "incomplete", "cancelled", "failed", "in_progress", "queued"}

\* mapStopReason of the OpenAI adapters, for a status they know
openaiMapStopReason(status) ==
    CASE status = "undefined" -> "stop"
      [] status = "completed" -> "stop"
      [] status = "incomplete" -> "length"
      [] status = "cancelled" -> "aborted"
      [] status = "failed" -> "error"
      [] OTHER -> "stop"

NewOpenAILocal ==
    [partIndexByItemId |-> [b \in Blocks |-> -1], ignoredItemIds |-> {}]

partTypeOfItem(kind) ==
    CASE kind = "reasoning" -> "thinking"
      [] kind = "message" -> "text"
      [] kind = "function_call" -> "tool_call"
      [] OTHER -> "none"

\* handleEvent
openaiHandle(k, l, event, effort) ==
    LET idx == l.partIndexByItemId[event.index]
        part == k.output.content[idx + 1]
    IN
    CASE event.type = "response.output_item.added" ->
           IF event.kind = "reasoning" /\ effort = "none"
           THEN Ok(k, [l EXCEPT !.ignoredItemIds = @ \cup {event.index}])
           ELSE IF event.kind \in {"reasoning", "message", "function_call"}
           THEN LET p == [Part(partTypeOfItem(event.kind)) EXCEPT
                            !.meta = (event.kind = "function_call")]
                    k1 == addPart(k, p)
                IN  Ok(k1, [l EXCEPT !.partIndexByItemId[event.index] =
                                        Len(k1.output.content) - 1])
           ELSE Ok(k, l)
      [] event.type \in {"response.reasoning_summary_text.delta",
                         "response.reasoning_summary_part.done"} ->
           IF event.index \in l.ignoredItemIds \/ idx = -1 THEN Ok(k, l)
           ELSE IF part.type # "thinking" THEN Ok(k, l)
           ELSE Ok(delta([k EXCEPT !.output.content[idx + 1].text = @ + 1], idx), l)
      [] event.type \in {"response.output_text.delta", "response.refusal.delta"} ->
           IF idx = -1 THEN Ok(k, l)
           ELSE IF part.type # "text" THEN Ok(k, l)
           ELSE Ok(delta([k EXCEPT !.output.content[idx + 1].text = @ + 1], idx), l)
      [] event.type = "response.function_call_arguments.delta" ->
           IF idx = -1 THEN Ok(k, l)
           ELSE IF part.type # "tool_call" THEN Ok(k, l)
           ELSE Ok(delta(k, idx), l)
      [] event.type = "response.output_item.done" ->
           IF event.index \in l.ignoredItemIds \/ idx = -1 THEN Ok(k, l)
           ELSE IF partTypeOfItem(event.kind) = part.type
           THEN Ok(endPart([k EXCEPT !.output.content[idx + 1].meta = TRUE], idx), l)
           ELSE Ok(endPart(k, idx), l)
      [] event.type = "response.completed" ->
           IF event.kind \in openaiStatuses \cup {"undefined"}
           THEN Ok(setStopReason(
                     IF event.kind = "undefined" THEN k ELSE setUsage(k, usageReport),
                     openaiMapStopReason(event.kind)), l)
           ELSE Throws(IF event.kind = "undefined" THEN k ELSE setUsage(k, usageReport),
                       l, "Unhandled case")
      [] event.type = "error" -> Throws(k, l, "OpenAI error")
      [] event.type = "response.failed" -> Throws(k, l, "OpenAI request failed")

\* ------------------------------- the adapters that build the message inline
\* the tail of the try block: abort override, defaults, terminal event, end()
inlineFinish(k, signalAborted) ==
    LET o1 == IF signalAborted
              THEN [k.output EXCEPT
                      !.stopReason = "aborted",
                      !.errorMessage = IF @ = Undefined THEN "Request was aborted" ELSE @]
              ELSE k.output
        o2 == [o1 EXCEPT !.stopReason = IF falsy(@) THEN "stop" ELSE @]
        isError == o2.stopReason = "error" \/ o2.stopReason = "aborted"
        final == IF isError /\ falsy(o2.errorMessage)
                 THEN [o2 EXCEPT !.errorMessage = "Request failed"]
                 ELSE o2
        k1 == [k EXCEPT !.output = final]
        k2 == emit(k1, Event(IF isError THEN "error" ELSE "done", -1, final))
    IN  [k2 EXCEPT !.stream = end(@, None)]

\* the catch block: no default for an empty error message
inlineFail(k, signalAborted, message) ==
    LET final == [k.output EXCEPT
                    !.stopReason = IF signalAborted THEN "aborted" ELSE "error",
                    !.errorMessage = message]
        k1 == [k EXCEPT !.output = final]
        k2 == emit(k1, Event("error", -1, final))
    IN  [k2 EXCEPT !.stream = end(@, None)]

\* output.stopReason "stop" becomes "tool_use" when a tool call is present
inlinePromote(k) ==
    IF hasToolCall(k.output.content) /\ k.output.stopReason = "stop"
    THEN setStopReason(k, "tool_use") ELSE k

\* ------------------------------------------------------ streamOpenAI, inline
OpenAIInlineWire ==
    {Wire("response.output_item.added", 0, kind) :
        kind \in {"reasoning", "message", "function_call", "web_search_call"}}
    \cup {Wire("response.content_part.added", 0, kind) : kind \in {"output_text", "refusal"}}
    \cup {Wire(type, 0, "") :
            type \in {"response.reasoning_summary_part.added",
                      "response.reasoning_summary_text.delta",
                      "response.reasoning_summary_part.done",
                      "response.output_text.delta",
                      "response.refusal.delta",
                      "response.function_call_arguments.delta"}}
    \cup {Wire("response.output_item.done", 0, kind) :
            kind \in {"reasoning", "message", "function_call", "function_call_bad_json"}}
    \cup {Wire("response.completed", 0, status) :
            status \in {"undefined", "completed", "incomplete", "failed", "bogus"}}
    \cup {Wire("error", 0, ""), Wire("response.failed", 0, "")}

\* currentItem (its type) and the type of the last entry of its content or
\* summary list; currentPart is the last part whenever currentItem is set
NewOpenAIInlineLocal == [currentItem |-> "null", last |-> "none"]

partIndex(k) == Len(k.output.content) - 1

openaiInlineHandle(k, l, event, effort) ==
    LET bump(kk) == [kk EXCEPT !.output.content[Len(kk.output.content)].text = @ + 1]
    IN
    CASE event.type = "response.output_item.added" ->
           IF event.kind = "reasoning" /\ effort = "none" THEN Ok(k, l)
           ELSE IF event.kind \in {"reasoning", "message", "function_call"}
           THEN Ok(addPart(k, [Part(partTypeOfItem(event.kind)) EXCEPT
                                 !.meta = (event.kind = "function_call")]),
                   [currentItem |-> event.kind, last |-> "none"])
           ELSE Ok(k, l)
      [] event.type = "response.reasoning_summary_part.added" ->
           IF l.currentItem = "reasoning" THEN Ok(k, [l EXCEPT !.last = "summary"])
           ELSE Ok(k, l)
      [] event.type \in {"response.reasoning_summary_text.delta",
                         "response.reasoning_summary_part.done"} ->
           IF l.currentItem = "reasoning" /\ l.last = "summary"
           THEN Ok(delta(bump(k), partIndex(k)), l) ELSE Ok(k, l)
      [] event.type = "response.content_part.added" ->
           IF l.currentItem = "message" THEN Ok(k, [l EXCEPT !.last = event.kind])
           ELSE Ok(k, l)
      [] event.type = "response.output_text.delta" ->
           IF l.currentItem = "message" /\ l.last = "output_text"
           THEN Ok(delta(bump(k), partIndex(k)), l) ELSE Ok(k, l)
      [] event.type = "response.refusal.delta" ->
           IF l.currentItem = "message" /\ l.last = "refusal"
           THEN Ok(delta(bump(k), partIndex(k)), l) ELSE Ok(k, l)
      [] event.type = "response.function_call_arguments.delta" ->
           IF l.currentItem = "function_call"
           THEN Ok(delta(k, partIndex(k)), l) ELSE Ok(k, l)
      [] event.type = "response.output_item.done" ->
           IF event.kind = "function_call_bad_json" /\ l.currentItem = "function_call"
           THEN Throws(k, l, "Unexpected end of JSON input")
           ELSE IF event.kind = l.currentItem
           THEN Ok(endPart([k EXCEPT !.output.content[Len(k.output.content)].meta = TRUE],
                           partIndex(k)),
                   NewOpenAIInlineLocal)
           ELSE Ok(k, l)
      [] event.type = "response.completed" ->
           LET k1 == IF event.kind = "undefined" THEN k ELSE setUsage(k, usageReport)
           IN  IF event.kind \in openaiStatuses \cup {"undefined"}
               THEN Ok(inlinePromote(setStopReason(k1, openaiMapStopReason(event.kind))), l)
               ELSE Throws(k1, l, "Unhandled OpenAI status")
      [] event.type = "error" -> Throws(k, l, "OpenAI error")
      [] event.type = "response.failed" -> Throws(k, l, "OpenAI request failed")

\* ------------------------------------------------------ streamGemini, inline
GeminiWire ==
    {Wire("content.start", b, kind) :
        b \in Blocks,
        kind \in {"text", "thought", "thought_signed", "function_call", "image"}}
    \cup {Wire("content.delta", b, kind) :
            b \in Blocks,
            kind \in {"text", "thought", "thought_signature", "function_call"}}
    \cup {Wire("content.stop", b, "") : b \in Blocks}
    \cup {Wire("interaction.complete", 0, status) :
            status \in {"completed", "requires_action", "failed", "bogus"}}
    \cup {Wire("error", 0, "")}

\* mapStopReason of providers/gemini.ts
geminiMapStopReason(status) ==
    CASE status = "completed" -> "stop"
      [] status = "requires_action" -> "tool_use"
      [] status = "cancelled" -> "aborted"
      [] status = "failed" -> "error"
      [] OTHER -> "stop"

\* started is a Set, iterated in insertion order; indexToPartIndex holds
\* -2 for an index it has no entry for
NewGeminiLocal == [started |-> <<>>, indexToPartIndex |-> [b \in Blocks |-> -2]]

setAdd(seq, x) == IF x \in Range(seq) THEN seq ELSE Append(seq, x)
setDelete(seq, x) == SelectSeq(seq, LAMBDA y : y # x)

geminiHandle(k, l, event, effort) ==
    LET mapped == l.indexToPartIndex[event.index]
        currentPart == k.output.content[mapped + 1]
        bump(kk) == [kk EXCEPT !.output.content[mapped + 1].text = @ + 1]
    IN
    CASE event.type = "content.start" ->
           LET l1 == [l EXCEPT !.started = setAdd(@, event.index)]
               map(ll, kk) == [ll EXCEPT !.indexToPartIndex[event.index] = partIndex(kk)]
           IN
           IF event.kind = "text"
           THEN LET k1 == addPart(k, Part("text")) IN Ok(k1, map(l1, k1))
           ELSE IF event.kind \in {"thought", "thought_signed"}
           THEN IF effort = "none"
                THEN Ok(k, [l1 EXCEPT !.indexToPartIndex[event.index] = -1])
                ELSE LET k1 == addPart(k, [Part("thinking") EXCEPT
                                             !.meta = (event.kind = "thought_signed")])
                     IN  Ok(k1, map(l1, k1))
           ELSE IF event.kind = "function_call"
           THEN LET k1 == addPart(k, Part("tool_call"))
                IN  Ok(delta(k1, partIndex(k1)), map(l1, k1))
           ELSE Ok(k, [l1 EXCEPT !.indexToPartIndex[event.index] = -1])
      [] event.type = "content.delta" ->
           IF mapped < 0 THEN Ok(k, l)
           ELSE IF mapped >= Len(k.output.content) THEN Ok(k, l)
           ELSE IF event.kind = "text"
           THEN IF currentPart.type = "text" THEN Ok(delta(bump(k), mapped), l) ELSE Ok(k, l)
           ELSE IF event.kind = "thought"
           THEN IF currentPart.type = "thinking" THEN Ok(delta(bump(k), mapped), l)
                ELSE Ok(k, l)
           ELSE IF event.kind = "thought_signature"
           THEN IF currentPart.type = "thinking"
                THEN Ok([k EXCEPT !.output.content[mapped + 1].meta = TRUE], l)
                ELSE Ok(k, l)
           ELSE IF currentPart.type = "tool_call" THEN Ok(delta(k, mapped), l)
           ELSE Ok(k, l)
      [] event.type = "content.stop" ->
           LET l1 == [l EXCEPT !.started = setDelete(@, event.index)]
           IN  IF mapped < 0 THEN Ok(k, l1) ELSE Ok(endPart(k, mapped), l1)
      [] event.type = "interaction.complete" ->
           Ok(inlinePromote(setStopReason(setUsage(k, usageReport),
                                          geminiMapStopReason(event.kind))), l)
      [] event.type = "error" -> Throws(k, l, "Gemini error")

RECURSIVE geminiCloseStarted(_, _, _)
\* after the loop: part_end for every index still in started
geminiCloseStarted(k, l, rest) ==
    IF rest = <<>> THEN k
    ELSE LET mapped == l.indexToPartIndex[Head(rest)]
         IN  geminiCloseStarted(IF mapped < 0 THEN k ELSE endPart(k, mapped), l, Tail(rest))

geminiEnd(k, l, signalAborted) ==
    LET k1 == geminiCloseStarted(k, l, l.started)
        k2 == [k1 EXCEPT !.output.content =
                 SelectSeq(@, LAMBDA p : p.type # "thinking" \/ p.meta)]
    IN  inlineFinish(k2, signalAborted)

\* --------------------------------------------- streamGoogle (StreamController)
\* one chunk: at most one part (kind) and at most one finishReason (index
\* is unused: the chunks do not address parts)
GoogleWire ==
    {Wire("chunk", 0, kind) :
        kind \in {"text", "text_empty", "thought", "thought_signed", "functionCall",
                  "usage", "STOP", "MAX_TOKENS", "SAFETY"}}

\* mapStopReason of streamGoogle
googleMapStopReason(reason) ==
    CASE reason = "STOP" -> "stop"
      [] reason = "MAX_TOKENS" -> "length"
      [] OTHER -> "error"

NewGoogleLocal == [currentIndex |-> -1, currentType |-> "null"]

\* endCurrent
endCurrent(k, l) ==
    IF l.currentIndex = -1 THEN Ok(k, l)
    ELSE Ok(endPart(k, l.currentIndex), NewGoogleLocal)

googleHandle(k, l, event, effort) ==
    CASE event.kind \in {"text", "text_empty", "thought", "thought_signed"} ->
           LET isThinking == event.kind \in {"thought", "thought_signed"}
               desired == IF isThinking THEN "thinking" ELSE "text"
               r1 == IF l.currentIndex = -1 \/ l.currentType # desired
                     THEN endCurrent(k, l) ELSE Ok(k, l)
               k2 == IF r1.l.currentIndex = -1 THEN addPart(r1.k, Part(desired)) ELSE r1.k
               index == IF r1.l.currentIndex = -1 THEN partIndex(k2) ELSE r1.l.currentIndex
               l2 == [currentIndex |-> index, currentType |-> desired]
               k3 == [k2 EXCEPT !.output.content[index + 1] =
                        [@ EXCEPT !.text = @ + 1,
                                  !.meta = @ \/ event.kind = "thought_signed"]]
           IN  IF isThinking /\ effort = "none" THEN Ok(k, l)
               ELSE IF event.kind = "text_empty" THEN Ok(k2, l2)
               ELSE Ok(delta(k3, index), l2)
      [] event.kind = "functionCall" ->
           LET r1 == endCurrent(k, l)
               k2 == addPart(r1.k, Part("tool_call"))
           IN  Ok(endPart(delta(k2, partIndex(k2)), partIndex(k2)), r1.l)
      [] event.kind = "usage" -> Ok(setUsage(k, usageReport), l)
      [] OTHER -> Ok(setStopReason(k, googleMapStopReason(event.kind)), l)

googleEnd(k, l, signalAborted) == finish(endCurrent(k, l).k, signalAborted)

\* --------------------------------------------------------- adapter dispatch
Adapters == {"anthropic", "anthropicStrict", "openai", "openaiInline", "geminiInline",
             "google"}

\* adapters built on StreamController call ctrl.start() before anything else
usesController(a) == a \in {"anthropic", "anthropicStrict", "openai", "google"}

\* adapters that await the vendor call before the for-await loop
awaitsOpen(a) == a \in {"openai", "openaiInline", "geminiInline", "google"}

WireOf(a) ==
    CASE a = "anthropic" -> AnthropicWire
      [] a = "anthropicStrict" -> AnthropicWire
      [] a = "openai" -> OpenAIWire
      [] a = "openaiInline" -> OpenAIInlineWire
      [] a = "geminiInline" -> GeminiWire
      [] a = "google" -> GoogleWire

NewLocal(a) ==
    CASE a = "anthropic" -> NewAnthropicLocal
      [] a = "anthropicStrict" -> NewAnthropicLocal
      [] a = "openai" -> NewOpenAILocal
      [] a = "openaiInline" -> NewOpenAIInlineLocal
      [] a = "geminiInline" -> NewGeminiLocal
      [] a = "google" -> NewGoogleLocal

handle(a, k, l, event, effort) ==
    CASE a = "anthropic" -> anthropicHandle(k, l, event)
      [] a = "anthropicStrict" -> anthropicStrictHandle(k, l, event)
      [] a = "openai" -> openaiHandle(k, l, event, effort)
      [] a = "openaiInline" -> openaiInlineHandle(k, l, event, effort)
      [] a = "geminiInline" -> geminiHandle(k, l, event, effort)
      [] a = "google" -> googleHandle(k, l, event, effort)

\* the vendor sequence is exhausted: the rest of the try block
atEnd(a, k, l, signalAborted) ==
    CASE a = "anthropic" -> anthropicEnd(k, signalAborted)
      [] a = "anthropicStrict" -> finish(k, signalAborted)
      [] a = "openai" -> finish(k, signalAborted)
      [] a = "openaiInline" -> inlineFinish(k, signalAborted)
      [] a = "geminiInline" -> geminiEnd(k, l, signalAborted)
      [] a = "google" -> googleEnd(k, l, signalAborted)

catchSwallow(a, k, signalAborted, message) == k

\* the catch block of the adapter's task
catch(a, k, signalAborted, message) ==
    IF usesController(a) THEN fail(k, signalAborted, message)
    ELSE inlineFail(k, signalAborted, message)

\* ------------------------------------------------------------ the call
\* the caller signals the AbortSignal handed over in options.signal
Abort ==
    /\ adapter # "none"
    /\ pc # "closed"
    /\ ~aborted
    /\ aborted' = TRUE
    /\ UNCHANGED <<stream, cpc, received, trace, ops, adapter, pc, output, local,
                   reasoning, wire, outcome, invoked, args, returned>>

\* the adapter function runs up to its first await: ctrl.start() for the
\* controller adapters, then the client constructor and buildParams, which
\* may throw into the catch block (streamGoogle's buildParams throws when
\* the signal is already aborted)
Invoke ==
    /\ adapter \in Adapters
    /\ pc = "idle"
    /\ LET k0 == IF usesController(adapter) THEN start(K) ELSE K
       IN  \/ /\ ~(adapter = "google" /\ aborted)
              /\ pc' = IF awaitsOpen(adapter) THEN "opening" ELSE "streaming"
              /\ Commit(k0)
           \/ \E message \in ErrorTexts :
                /\ pc' = "closed"
                /\ Commit(catch(adapter, k0, aborted, message))
    /\ local' = NewLocal(adapter)
    /\ UNCHANGED <<cpc, received, ops, adapter, aborted, reasoning, wire, outcome, invoked,
                   args, returned>>

\* the awaited vendor call resolves with the wire sequence; the inline
\* adapters push start only now
OpenResolve ==
    /\ pc = "opening"
    /\ pc' = "streaming"
    /\ Commit(IF usesController(adapter) THEN K ELSE start(K))
    /\ UNCHANGED <<cpc, received, ops, adapter, local, aborted, reasoning, wire, outcome, invoked,
                   args, returned>>

\* the awaited vendor call rejects
OpenReject(message) ==
    /\ pc = "opening"
    /\ pc' = "closed"
    /\ Commit(catch(adapter, K, aborted, message))
    /\ UNCHANGED <<cpc, received, ops, adapter, local, aborted, reasoning, wire, outcome, invoked,
                   args, returned>>

WireBound == IF \E c \in Consumers : cpc[c] # "unused" THEN MaxDrainWire ELSE MaxWire

\* the vendor sequence yields one wire event; an error thrown while
\* handling it lands in the catch block. A wire event the adapter ignores
\* changes nothing: it is a stuttering step and is not counted
VendorEvent(event) ==
    /\ pc = "streaming"
    /\ wire < WireBound
    /\ event \in WireOf(adapter)
    /\ LET r == handle(adapter, K, local, event, reasoning)
       IN  IF r.thrown = None
           THEN /\ r.k # K \/ r.l # local
                /\ Commit(r.k) /\ local' = r.l /\ pc' = pc
           ELSE /\ Commit(catch(adapter, r.k, aborted, r.thrown[1]))
                /\ local' = r.l
                /\ pc' = "closed"
    /\ wire' = wire + 1
    /\ UNCHANGED <<cpc, received, ops, adapter, aborted, reasoning, outcome, invoked, args, returned>>

\* the vendor sequence ends
VendorEnd ==
    /\ pc = "streaming"
    /\ pc' = "closed"
    /\ Commit(atEnd(adapter, K, local, aborted))
    /\ UNCHANGED <<cpc, received, ops, adapter, local, aborted, reasoning, wire, outcome, invoked,
                   args, returned>>

\* the vendor sequence throws
VendorThrow(message) ==
    /\ pc = "streaming"
    /\ pc' = "closed"
    /\ Commit(catch(adapter, K, aborted, message))
    /\ UNCHANGED <<cpc, received, ops, adapter, local, aborted, reasoning, wire, outcome, invoked,
                   args, returned>>

\* how a promise settles
Fulfilled(value) == [state |-> "fulfilled", value |-> value]
Rejected(message, attached) ==
    [state |-> "rejected", value |-> [message |-> message, attached |-> attached]]

\* resultOrThrow that throws for the error stop reason only
resultOrThrowErrorOnly(result) ==
    IF result.stopReason = "error"
    THEN Rejected(IF result.errorMessage = Undefined THEN "Request failed"
                  ELSE result.errorMessage, result)
    ELSE Fulfilled(result)

\* AssistantStream.resultOrThrow / AgentStream.resultOrThrow after the
\* awaited result() has resolved; attached is error.assistantMessage or
\* error.agentResult
resultOrThrow(result) ==
    IF result.stopReason = "error" \/ result.stopReason = "aborted"
    THEN Rejected(IF result.errorMessage = Undefined THEN "Request failed"
                  ELSE result.errorMessage, result)
    ELSE Fulfilled(result)

\* the caller's resultOrThrow() continues once result() has resolved
ResultOrThrow ==
    /\ outcome = None
    /\ stream.finalResult # None
    /\ outcome' = Some(resultOrThrow(stream.finalResult[1]))
    /\ UNCHANGED <<stream, cpc, received, trace, ops, adapter, pc, output, local, aborted,
                   reasoning, wire, invoked, args, returned>>

\* stream() fails a pre-flight check (missing API key, tools with a model
\* that does not support them, invalid tool schema) and throws to its
\* caller: no adapter runs and no stream is returned
Preflight ==
    /\ adapter \in Adapters
    /\ pc = "idle"
    /\ pc' = "thrown"
    /\ UNCHANGED <<stream, cpc, received, trace, ops, adapter, output, local, aborted,
                   reasoning, wire, outcome, invoked, args, returned>>

\* whether a consumer iterates the stream of this call
Draining == \E c \in Consumers : cpc[c] # "unused"

AllWire == UNION {WireOf(a) : a \in Adapters}

Init ==
    /\ stream = NewStream
    /\ \E n \in {0, 1} :
         cpc = [c \in Consumers |-> IF c <= n THEN "top" ELSE "unused"]
    /\ received = [c \in Consumers |-> <<>>]
    /\ trace = <<>>
    /\ ops = <<>>
    /\ adapter \in Adapters
    /\ pc = "idle"
    /\ output = NewOutput
    /\ local = <<>>
    /\ aborted = FALSE
    /\ reasoning \in {"none", "high"}
    /\ wire = 0
    /\ outcome = None
    /\ invoked = <<>>
    /\ args = None
    /\ returned = None

Next ==
    \/ Abort
    \/ Invoke
    \/ OpenResolve
    \/ \E message \in ErrorTexts : OpenReject(message)
    \/ \E event \in AllWire : VendorEvent(event)
    \/ VendorEnd
    \/ \E message \in ErrorTexts : VendorThrow(message)
    \/ \E c \in Consumers : IterNext(c)
    \/ \E c \in Consumers : IterResume(c)

Spec == Init /\ [][Next]_vars

\* the adapter task up to the point where it waits for the vendor, and the
\* end of the vendor sequence (normal or by throwing)
AdapterProgress ==
    \/ Invoke
    \/ OpenResolve
    \/ \E message \in ErrorTexts : OpenReject(message)
    \/ VendorEnd
    \/ \E message \in ErrorTexts : VendorThrow(message)

ConsumerProgress == \E c \in Consumers : IterNext(c) \/ IterResume(c)

\* calls whose vendor sequence has at most MaxLiveWire events
LiveNext == Next /\ wire' <= MaxLiveWire

\* the states in which AdapterProgress is enabled
AdapterReady == pc \in {"idle", "opening", "streaming"}

\* the scheduler runs every ready task, every vendor sequence ends or
\* throws, and a consumer that iterates keeps iterating. The first
\* condition is WF_vars(AdapterProgress) with its enabling condition
\* written out as AdapterReady
FairSpec ==
    /\ Init
    /\ [][LiveNext]_vars
    /\ (<>[]AdapterReady => []<><<AdapterProgress>>_vars)
    /\ WF_vars(ConsumerProgress)

\* ------------------------------------------------------------------ agent()
\* the tool names a model may call; the handlers map has only the first
ToolNames == {"known", "missing"}
handlers == {"known"}

\* a tool_call part of an assistant message
ToolCall(id, name) == [id |-> id, name |-> name]

AssistantMessage(stopReason, errorMessage, calls) ==
    [role |-> "assistant", stopReason |-> stopReason, errorMessage |-> errorMessage,
     calls |-> calls]

\* the final messages a turn's assistant stream may resolve to
AssistantResults ==
    {AssistantMessage("stop", Undefined, <<>>),
     AssistantMessage("length", Undefined, <<>>),
     AssistantMessage("error", "Request failed", <<>>),
     AssistantMessage("aborted", "Request was aborted", <<>>),
     AssistantMessage("error", "Request failed", <<ToolCall(1, "known")>>),
     AssistantMessage("aborted", "Request was aborted", <<ToolCall(1, "known")>>)}
    \cup {AssistantMessage("tool_use", Undefined, [i \in DOMAIN names |-> ToolCall(i, names[i])]) :
            names \in UNION {[1..n -> ToolNames] : n \in 1..MaxCalls}}

\* how a call ends: it returned a value or threw one
Returned(value) == [threw |-> FALSE, value |-> value]
Thrown(error) == [threw |-> TRUE, value |-> error]

\* a conversion that throws instead of giving a string
Raises == "raises"

\* what a handler may return: string is String(value), json is
\* JSON.stringify(value), which is undefined for some values; both throw
\* for the last one (an object with no prototype that contains itself)
HandlerValues ==
    {[kind |-> "string", string |-> "ok", json |-> "\"ok\""],
     [kind |-> "object", string |-> "[object Object]", json |-> "{}"],
     [kind |-> "undefined", string |-> "undefined", json |-> Undefined],
     [kind |-> "unprintable", string |-> Raises, json |-> Raises]}

\* what a handler may throw: an Error, or any other value
HandlerErrors ==
    {[isError |-> TRUE, message |-> "boom", string |-> "Error: boom"],
     [isError |-> FALSE, message |-> Undefined, string |-> "oops"]}

\* errorToString
errorToString(error) == IF error.isError THEN error.message ELSE error.string

\* the TypeError of String(value) for a value with no string conversion
ConversionError ==
    [isError |-> TRUE, message |-> "Cannot convert object to primitive value",
     string |-> "TypeError: Cannot convert object to primitive value"]

\* String(value)
String(value) == IF value.string = Raises THEN Thrown(ConversionError) ELSE Returned(value.string)

\* toolResultToString: the string it returns, or the error it throws
toolResultToString(value) ==
    IF value.kind = "string" THEN Returned(value.string)
    ELSE IF value.json = Raises THEN String(value)
    ELSE IF value.json = Undefined THEN String(value)
    ELSE Returned(value.json)

\* a tool entry that carries another id than its call's
ToolMessageOtherId(call, content, isError) ==
    [role |-> "tool", toolCallId |-> call.id + 1, toolName |-> call.name,
     content |-> content, isError |-> isError]

ToolMessage(call, content, isError) ==
    [role |-> "tool", toolCallId |-> call.id, toolName |-> call.name,
     content |-> content, isError |-> isError]

AgentResult(messages, stopReason, errorMessage) ==
    [messages |-> messages, stopReason |-> stopReason, errorMessage |-> errorMessage]

\* the errors stream() throws before it opens a stream
PreflightErrors == {"Missing API key for provider", "Model does not support tools"}

\* the caller's context.messages: the conversation opens with a user message
AgentContexts == {<<[role |-> "user", content |-> "q"]>>}

NewAgentLocal(context, maxTurns) ==
    [turn |-> 0, messages |-> <<>>, calls |-> <<>>, next |-> 1, maxTurns |-> maxTurns,
     inner |-> 0, thrown |-> None, final |-> None, context |-> context, request |-> None]

\* the agent task's state as one value
A == [stream |-> stream, trace |-> trace, l |-> local, pc |-> pc, invoked |-> invoked]

CommitAgent(a) ==
    /\ stream' = a.stream
    /\ trace' = a.trace
    /\ local' = a.l
    /\ pc' = a.pc
    /\ invoked' = a.invoked

\* output.push(event)
agentPush(a, event) ==
    [a EXCEPT !.stream = push(a.stream, event),
              !.trace = a.trace \o accepted(a.stream, <<event>>)]

\* a close that reports every end of the run as an error
agentCloseAlwaysError(a, type, stopReason, errorMessage) ==
    LET a1 == agentPush(a, Event("error", -1,
                                 AgentResult(a.l.messages, stopReason, errorMessage)))
    IN  [a1 EXCEPT !.stream = end(a1.stream, None), !.pc = "closed"]

\* output.push of a terminal event, output.end(), return
agentClose(a, type, stopReason, errorMessage) ==
    LET a1 == agentPush(a, Event(type, -1,
                                 AgentResult(a.l.messages, stopReason, errorMessage)))
    IN  [a1 EXCEPT !.stream = end(a1.stream, None), !.pc = "closed"]

\* a request that carries the caller's messages only
turnContextNoHistory(a) == a.l.context

\* the messages of the turn's request: the caller's, then the run's history
turnContext(a) == a.l.context \o a.l.messages

\* a turn loop without the turn limit check
turnTopNoLimit(a, preflight) ==
    LET a1 == agentPush([a EXCEPT !.l.request = Some(turnContext(a))],
                        Event("turn_start", a.l.turn, NoMessage))
    IN  IF preflight # None
        THEN [a1 EXCEPT !.pc = "rejected", !.l.thrown = preflight]
        ELSE [a1 EXCEPT !.pc = "iterating"]

\* top of the turn loop up to the first await of the for-await over the
\* turn's assistant stream; stream() may throw before returning a stream
\* (preflight is the error it throws, if any)
turnTop(a, preflight) ==
    IF a.l.maxTurns # None /\ a.l.turn >= a.l.maxTurns[1]
    THEN agentClose(a, "error", "error", "maxTurns exceeded")
    ELSE LET a1 == agentPush([a EXCEPT !.l.request = Some(turnContext(a))],
                             Event("turn_start", a.l.turn, NoMessage))
         IN  IF preflight # None
             THEN [a1 EXCEPT !.pc = "rejected", !.l.thrown = preflight]
             ELSE [a1 EXCEPT !.pc = "iterating"]

\* a tool loop that starts the handlers of all the turn's calls at once
nextCallAllAtOnce(a, preflight) ==
    IF a.l.next > Len(a.l.calls)
    THEN turnTop([a EXCEPT !.l.turn = @ + 1], preflight)
    ELSE LET call == a.l.calls[a.l.next]
         IN  IF call.name \notin handlers
             THEN agentClose(a, "error", "error", "Unknown tool: " \o call.name)
             ELSE IF a.l.next > 1 THEN [a EXCEPT !.pc = "handler"]
             ELSE [a EXCEPT !.pc = "handler",
                            !.invoked = @ \o [j \in 1..Len(a.l.calls) |->
                                                [turn |-> a.l.turn, call |-> a.l.calls[j]]]]

\* a tool loop that invokes whatever the handler lookup gives
nextCallNoLookup(a, preflight) ==
    IF a.l.next > Len(a.l.calls)
    THEN turnTop([a EXCEPT !.l.turn = @ + 1], preflight)
    ELSE [a EXCEPT !.pc = "handler",
                   !.invoked = Append(@, [turn |-> a.l.turn, call |-> a.l.calls[a.l.next]])]

\* a tool loop that looks up the handlers of all the turn's calls before
\* it invokes the first
nextCallLookupUpFront(a, preflight) ==
    IF a.l.next > Len(a.l.calls)
    THEN turnTop([a EXCEPT !.l.turn = @ + 1], preflight)
    ELSE LET call == a.l.calls[a.l.next]
             missing == {j \in a.l.next..Len(a.l.calls) : a.l.calls[j].name \notin handlers}
         IN  IF missing # {}
             THEN agentClose(a, "error", "error",
                             "Unknown tool: " \o a.l.calls[CHOOSE j \in missing :
                                                             \A i \in missing : j <= i].name)
             ELSE [a EXCEPT !.pc = "handler",
                            !.invoked = Append(@, [turn |-> a.l.turn, call |-> call])]

\* the tool loop at its next call: handler lookup and invocation, or the
\* next turn
nextCall(a, preflight) ==
    IF a.l.next > Len(a.l.calls)
    THEN turnTop([a EXCEPT !.l.turn = @ + 1], preflight)
    ELSE LET call == a.l.calls[a.l.next]
         IN  IF call.name \notin handlers
             THEN agentClose(a, "error", "error", "Unknown tool: " \o call.name)
             ELSE [a EXCEPT !.pc = "handler",
                            !.invoked = Append(@, [turn |-> a.l.turn, call |-> call])]

CallBound == IF Draining THEN MaxDrainCalls ELSE MaxCalls

\* agent() is called with valid options and handlers
AgentInvoke(preflight) ==
    /\ adapter = "agent"
    /\ pc = "idle"
    /\ CommitAgent(turnTop(A, preflight))
    /\ UNCHANGED <<cpc, received, ops, adapter, output, aborted, reasoning, wire, outcome, args, returned>>

\* the rejection handler attached to the agent task
AgentCatch ==
    /\ adapter = "agent"
    /\ pc = "rejected"
    /\ CommitAgent(agentClose(A, "error", IF aborted THEN "aborted" ELSE "error",
                              local.thrown[1]))
    /\ UNCHANGED <<cpc, received, ops, adapter, output, aborted, reasoning, wire, outcome, args, returned>>

\* the turn's assistant stream yields an event and the loop body proxies it
AgentInnerEvent ==
    /\ adapter = "agent"
    /\ pc = "iterating"
    /\ local.inner < MaxInner
    /\ CommitAgent([agentPush(A, Event("assistant_event", local.turn, NoMessage))
                      EXCEPT !.l.inner = @ + 1])
    /\ UNCHANGED <<cpc, received, ops, adapter, output, aborted, reasoning, wire, outcome, args, returned>>

\* a loop body that leaves the for-await at the terminal event without
\* proxying it
AgentInnerTerminalUnproxied(assistant) ==
    /\ adapter = "agent"
    /\ pc = "iterating"
    /\ (assistant.calls # <<>> /\ assistant.stopReason \notin {"error", "aborted"}) =>
         local.turn < MaxTurns /\ Len(invoked) + Len(assistant.calls) <= CallBound
    /\ CommitAgent([A EXCEPT !.l.final = Some(assistant), !.pc = "awaiting"])
    /\ UNCHANGED <<cpc, received, ops, adapter, output, aborted, reasoning, wire, outcome, args, returned>>

\* the turn's assistant stream yields its terminal event, done or error
\* with the final message, and the loop body proxies it like any other
AgentInnerTerminal(assistant) ==
    /\ adapter = "agent"
    /\ pc = "iterating"
    /\ (assistant.calls # <<>> /\ assistant.stopReason \notin {"error", "aborted"}) =>
         local.turn < MaxTurns /\ Len(invoked) + Len(assistant.calls) <= CallBound
    /\ CommitAgent([agentPush(A, Event("assistant_event", local.turn, assistant))
                      EXCEPT !.l.final = Some(assistant), !.pc = "awaiting"])
    /\ UNCHANGED <<cpc, received, ops, adapter, output, aborted, reasoning, wire, outcome, args, returned>>

\* a task that looks at the tool calls before the stop reason
AgentAssistantCallsFirst(assistant) ==
    /\ adapter = "agent"
    /\ pc = "awaiting"
    /\ local.final = Some(assistant)
    /\ LET a1 == [A EXCEPT !.l.messages = Append(@, assistant)]
       IN  CommitAgent(
             IF assistant.calls # <<>>
             THEN nextCall([a1 EXCEPT !.l.calls = assistant.calls, !.l.next = 1], None)
             ELSE IF assistant.stopReason \in {"error", "aborted"}
             THEN agentClose(a1, "error", assistant.stopReason, assistant.errorMessage)
             ELSE agentClose(a1, "done", assistant.stopReason, assistant.errorMessage))
    /\ UNCHANGED <<cpc, received, ops, adapter, output, aborted, reasoning, wire, outcome, args, returned>>

\* the turn's assistant stream is exhausted and its result() resolves to
\* the message of its terminal event
AgentAssistant(assistant) ==
    /\ adapter = "agent"
    /\ pc = "awaiting"
    /\ local.final = Some(assistant)
    /\ LET a1 == [A EXCEPT !.l.messages = Append(@, assistant)]
       IN  CommitAgent(
             IF assistant.stopReason \in {"error", "aborted"}
             THEN agentClose(a1, "error", assistant.stopReason, assistant.errorMessage)
             ELSE IF assistant.calls = <<>>
             THEN agentClose(a1, "done", assistant.stopReason, assistant.errorMessage)
             ELSE nextCall([a1 EXCEPT !.l.calls = assistant.calls, !.l.next = 1], None))
    /\ UNCHANGED <<cpc, received, ops, adapter, output, aborted, reasoning, wire, outcome, args, returned>>

\* the awaited handler call settles: it returned a value or threw
AgentHandlerSettle(settled, preflight) ==
    /\ adapter = "agent"
    /\ pc = "handler"
    /\ LET call == local.calls[local.next]
           converted == IF settled.threw THEN settled
                        ELSE toolResultToString(settled.value)
           content == IF converted.threw THEN errorToString(converted.value)
                      ELSE converted.value
           toolMessage == ToolMessage(call, content, converted.threw)
           a1 == [A EXCEPT !.l.messages = Append(@, toolMessage),
                           !.l.next = @ + 1]
           a2 == agentPush(a1, Event("tool_result", local.turn, toolMessage))
       IN  CommitAgent(nextCall(a2, preflight))
    /\ UNCHANGED <<cpc, received, ops, adapter, output, aborted, reasoning, wire, outcome, args, returned>>

InitAgent ==
    /\ stream = NewStream
    /\ \E n \in {0, 1} :
         cpc = [c \in Consumers |-> IF c <= n THEN "top" ELSE "unused"]
    /\ received = [c \in Consumers |-> <<>>]
    /\ trace = <<>>
    /\ ops = <<>>
    /\ adapter = "agent"
    /\ pc = "idle"
    /\ output = NewOutput
    /\ \E context \in AgentContexts, maxTurns \in {None} \cup {Some(n) : n \in 1..MaxTurns} :
         local = NewAgentLocal(context, maxTurns)
    /\ aborted = FALSE
    /\ reasoning = "none"
    /\ wire = 0
    /\ outcome = None
    /\ invoked = <<>>
    /\ args = None
    /\ returned = None

Preflights == {None} \cup {Some(message) : message \in PreflightErrors}

HandlerSettlements ==
    {Returned(value) : value \in HandlerValues} \cup {Thrown(error) : error \in HandlerErrors}

NextAgent ==
    \/ Abort
    \/ \E preflight \in Preflights : AgentInvoke(preflight)
    \/ AgentCatch
    \/ AgentInnerEvent
    \/ \E assistant \in AssistantResults : AgentInnerTerminal(assistant)
    \/ \E assistant \in AssistantResults : AgentAssistant(assistant)
    \/ \E settled \in HandlerSettlements, preflight \in Preflights :
         AgentHandlerSettle(settled, preflight)
    \/ \E c \in Consumers : IterNext(c)
    \/ \E c \in Consumers : IterResume(c)

SpecAgent == InitAgent /\ [][NextAgent]_vars

\* the steps with which the agent task continues after an await: the
\* streaming call ended, the handler settled, the task rejected
AgentProgress ==
    \/ \E preflight \in Preflights : AgentInvoke(preflight)
    \/ AgentCatch
    \/ \E assistant \in AssistantResults : AgentInnerTerminal(assistant)
    \/ \E assistant \in AssistantResults : AgentAssistant(assistant)
    \/ \E settled \in HandlerSettlements, preflight \in Preflights :
         AgentHandlerSettle(settled, preflight)

\* the states in which AgentProgress is enabled
AgentReady == pc \in {"idle", "rejected", "iterating", "awaiting", "handler"}

\* every streaming call and every handler terminates, and the scheduler
\* runs the agent task when it can continue: WF_vars(AgentProgress) with
\* its enabling condition written out as AgentReady
FairSpecAgent ==
    /\ InitAgent
    /\ [][NextAgent]_vars
    /\ (<>[]AgentReady => []<><<AgentProgress>>_vars)

\* every stream a caller can get: from a provider adapter or from agent()
\* stream(): its pre-flight checks, then the provider's adapter
NextStream == Preflight \/ Next

\* the caller of stream() or agent(): the call and its task, and the
\* caller's own resultOrThrow()
NextCalls == NextStream \/ NextAgent \/ ResultOrThrow

SpecCalls == (Init \/ InitAgent) /\ [][NextCalls]_vars

\* ------------------------------------------------ normalizeContextForTarget
\* a string is the sequence of its characters; whitespace is what trim()
\* removes
IsSpace(ch) == ch \in {" ", "\n"}

RECURSIVE trimStart(_)
trimStart(text) ==
    IF text # <<>> /\ IsSpace(Head(text)) THEN trimStart(Tail(text)) ELSE text

RECURSIVE trimEnd(_)
trimEnd(text) ==
    IF text # <<>> /\ IsSpace(text[Len(text)])
    THEN trimEnd(SubSeq(text, 1, Len(text) - 1))
    ELSE text

\* String.prototype.trim
trim(text) == trimEnd(trimStart(text))

\* Array.prototype.join with the separator "\n\n"
RECURSIVE join(_)
join(texts) ==
    IF texts = <<>> THEN <<>>
    ELSE IF Len(texts) = 1 THEN texts[1]
    ELSE texts[1] \o <<"\n", "\n">> \o join(Tail(texts))

\* AssistantPart; meta is the optional provider metadata of the part (the
\* signature in the revision of types.ts)
TextPart(text, meta) == [type |-> "text", text |-> text, meta |-> meta]
ThinkingPart(text, meta) == [type |-> "thinking", text |-> text, meta |-> meta]
ToolCallPart(id, name, callArgs, meta) ==
    [type |-> "tool_call", id |-> id, name |-> name, args |-> callArgs, meta |-> meta]

\* AssistantMessageInput.content: a string or an array of parts
StringContent(text) == [isString |-> TRUE, text |-> text, parts |-> <<>>]
PartsContent(parts) == [isString |-> FALSE, text |-> <<>>, parts |-> parts]

\* Message; provider, model, stopReason and isError are optional fields
SystemMsg(content) == [role |-> "system", content |-> content]
UserMsg(content) == [role |-> "user", content |-> content]
AssistantMsg(content, provider, model, stopReason) ==
    [role |-> "assistant", content |-> content, provider |-> provider, model |-> model,
     stopReason |-> stopReason]
ToolMsg(toolCallId, toolName, content, isError) ==
    [role |-> "tool", toolCallId |-> toolCallId, toolName |-> toolName,
     content |-> content, isError |-> isError]

\* coerceAssistantContent
coerceAssistantContent(content) ==
    IF content.isString THEN <<TextPart(content.text, None)>> ELSE content.parts

\* toolCallTranscript of the revision in stream.ts
toolCallTranscript(part) == <<"[iota tool_call]", part.name, part.id, part.args>>

\* toolResultTranscript of the revision in stream.ts
toolResultTranscript(msg) ==
    <<"[iota tool_result]", msg.toolName, msg.toolCallId,
      IF msg.isError = Some(TRUE) THEN "true" ELSE "false", "\n">> \o msg.content

\* the part a part of another model's message becomes, as a list of zero
\* or one parts
RECURSIVE portableParts(_, _)
portableParts(revision, parts) ==
    IF parts = <<>> THEN <<>>
    ELSE LET part == Head(parts)
             kept == IF part.type = "text"
                     THEN <<TextPart(part.text,
                                     IF revision = "stream.ts" THEN None ELSE part.meta)>>
                     ELSE IF part.type = "thinking" THEN <<>>
                     ELSE IF revision = "stream.ts"
                     THEN <<TextPart(toolCallTranscript(part), None)>>
                     ELSE <<part>>
         IN  kept \o portableParts(revision, Tail(parts))

\* normalizeAssistantMessage
normalizeAssistantMessage(revision, target, msg) ==
    LET parts == coerceAssistantContent(msg.content)
    IN  IF msg.provider = Some(target.provider) /\ msg.model = Some(target.id)
        THEN [msg EXCEPT !.content = PartsContent(parts)]
        ELSE AssistantMsg(PartsContent(portableParts(revision, parts)), None, None, None)

\* the system text of the normalized context
systemOf(context) ==
    LET IsSystem(msg) == msg.role = "system" /\ Len(trim(msg.content)) > 0
        fromMessages == SelectSeq(context.messages, IsSystem)
        systemParts ==
            (IF context.system # None /\ Len(trim(context.system[1])) > 0
             THEN <<trim(context.system[1])>> ELSE <<>>)
            \o [i \in 1..Len(fromMessages) |-> trim(fromMessages[i].content)]
    IN  IF Len(systemParts) > 0 THEN Some(join(systemParts)) ELSE None

\* the ids of the tool calls in the messages the target produced (stream.ts)
toolCallIds(target, messages) ==
    UNION {{part.id : part \in {q \in Range(coerceAssistantContent(messages[i].content)) :
                                  q.type = "tool_call"}} :
             i \in {j \in 1..Len(messages) :
                      /\ messages[j].role = "assistant"
                      /\ messages[j].provider = Some(target.provider)
                      /\ messages[j].model = Some(target.id)}}

\* what the message loop pushes for a tool message
normalizeToolMessage(revision, target, messages, msg) ==
    IF revision = "stream.ts" /\ msg.toolCallId \notin toolCallIds(target, messages)
    THEN UserMsg(toolResultTranscript(msg))
    ELSE [msg EXCEPT !.isError = IF @ = None THEN Some(FALSE) ELSE @]

\* a message loop that passes system messages on
normalizeMessageKeepsSystem(revision, target, messages, msg) ==
    IF msg.role = "system" \/ msg.role = "user" THEN <<msg>>
    ELSE IF msg.role = "assistant" THEN <<normalizeAssistantMessage(revision, target, msg)>>
    ELSE <<normalizeToolMessage(revision, target, messages, msg)>>

\* the message loop: the list of zero or one messages pushed for msg
normalizeMessage(revision, target, messages, msg) ==
    IF msg.role = "system" THEN <<>>
    ELSE IF msg.role = "user" THEN <<msg>>
    ELSE IF msg.role = "assistant" THEN <<normalizeAssistantMessage(revision, target, msg)>>
    ELSE <<normalizeToolMessage(revision, target, messages, msg)>>

\* the filter applied to the pushed messages
retained(msg) ==
    IF msg.role = "assistant" THEN Len(coerceAssistantContent(msg.content)) > 0
    ELSE IF msg.role = "user" THEN Len(trim(msg.content)) > 0
    ELSE TRUE

RECURSIVE normalizeMessages(_, _, _, _)
normalizeMessages(revision, target, messages, rest) ==
    IF rest = <<>> THEN <<>>
    ELSE normalizeMessage(revision, target, messages, Head(rest))
         \o normalizeMessages(revision, target, messages, Tail(rest))

\* normalizeContextForTarget, in the revision of part_006 and part_007 or
\* in the revision of stream.ts
normalizeContextForTarget(revision, target, context) ==
    [system |-> systemOf(context),
     messages |-> SelectSeq(normalizeMessages(revision, target, context.messages,
                                              context.messages), retained),
     tools |-> context.tools]

\* the models of a conversation: the target, the same id at another
\* provider, another id at the same provider
Target == [provider |-> "openai", id |-> "gpt"]
Producers ==
    {[provider |-> Some("openai"), model |-> Some("gpt")],
     [provider |-> Some("anthropic"), model |-> Some("gpt")],
     [provider |-> Some("openai"), model |-> Some("other")],
     [provider |-> None, model |-> None]}

Revisions == {"part_006", "stream.ts"}

AssistantContents ==
    {StringContent(<<"a">>),
     PartsContent(<<>>),
     PartsContent(<<ThinkingPart(<<"t">>, Some("sig"))>>),
     PartsContent(<<TextPart(<<"a">>, Some("sig")), ThinkingPart(<<"t">>, None),
                    ToolCallPart("c1", "add", "{}", None)>>),
     PartsContent(<<ToolCallPart("c1", "add", "{}", Some("sig")), TextPart(<<" ">>, None)>>)}

\* the messages a conversation is made of
ContextMessages ==
    {SystemMsg(content) : content \in {<<" ">>, <<"a", " ">>}}
    \cup {UserMsg(content) : content \in {<<" ">>, <<"a", " ">>}}
    \cup {AssistantMsg(content, producer.provider, producer.model, stopReason) :
            content \in AssistantContents, producer \in Producers,
            stopReason \in {Some("stop")}}
    \cup {ToolMsg(id, "add", <<"5">>, isError) :
            id \in {"c1", "c2"}, isError \in {None, Some(TRUE)}}

Contexts ==
    [system : {None, Some(<<" ">>), Some(<<" ", "a">>)},
     messages : UNION {[1..n -> ContextMessages] : n \in 0..MaxMessages},
     tools : {"tools"}]

\* a caller normalizes a conversation, and then the result again
InitNormalize ==
    /\ stream = NewStream
    /\ cpc = [c \in Consumers |-> "unused"]
    /\ received = [c \in Consumers |-> <<>>]
    /\ trace = <<>>
    /\ ops = <<>>
    /\ adapter = "none"
    /\ pc = "idle"
    /\ output = NewOutput
    /\ local = Undefined
    /\ aborted = FALSE
    /\ reasoning = "none"
    /\ wire = 0
    /\ outcome = None
    /\ invoked = <<>>
    /\ \E revision \in Revisions, context \in Contexts :
         args = Some([revision |-> revision, target |-> Target, context |-> context])
    /\ returned = <<>>

\* normalizeContextForTarget(target, context) on the conversation, or on
\* what the previous call returned
Normalize ==
    /\ args # None
    /\ Len(returned) < MaxReapply
    /\ returned' = Append(returned,
                          normalizeContextForTarget(
                              args[1].revision, args[1].target,
                              IF returned = <<>> THEN args[1].context
                              ELSE returned[Len(returned)]))
    /\ UNCHANGED <<stream, cpc, received, trace, ops, adapter, pc, output, local, aborted,
                   reasoning, wire, outcome, invoked, args>>

SpecNormalize == InitNormalize /\ [][Normalize]_vars

\* ------------------------------------------------------------ calculateCost
\* Amounts are exact: a price is a number of tenths of a dollar per million
\* tokens, a multiplier a number of halves, and a cost a number of
\* CostUnits-ths of a dollar
PerMillion == 1000000
PriceUnits == 10
MultiplierUnits == 2
CostUnits == PriceUnits * PerMillion * MultiplierUnits

\* a multiplier that does not look at the provider
openaiServiceTierCostMultiplierAnyProvider(provider, tier) ==
    IF tier = Some("flex") THEN 1
    ELSE IF tier = Some("priority") THEN 4
    ELSE 2

\* openaiServiceTierCostMultiplier, in halves
openaiServiceTierCostMultiplier(provider, tier) ==
    IF provider # "openai" THEN 2
    ELSE IF tier = None \/ tier = Some("standard") THEN 2
    ELSE IF tier = Some("flex") THEN 1
    ELSE 4

\* calculateCost
calculateCost(model, usage, serviceTier) ==
    LET multiplier == openaiServiceTierCostMultiplier(model.provider, serviceTier)
        input == model.pricing.inputPer1M * usage.inputTokens * multiplier
        out == model.pricing.outputPer1M * usage.outputTokens * multiplier
        cacheRead == model.pricing.cacheReadPer1M * usage.cacheReadTokens * multiplier
        cacheWrite == model.pricing.cacheWritePer1M * usage.cacheWriteTokens * multiplier
    IN  [input |-> input, output |-> out, cacheRead |-> cacheRead,
         cacheWrite |-> cacheWrite, total |-> input + out + cacheRead + cacheWrite]

Providers == {"openai", "anthropic", "gemini"}
ServiceTiers == {None, Some("standard"), Some("flex"), Some("priority")}

\* price lists, in tenths of a dollar per million tokens
Pricings ==
    {[inputPer1M |-> 20, outputPer1M |-> 120, cacheReadPer1M |-> 2, cacheWritePer1M |-> 0],
     [inputPer1M |-> 50, outputPer1M |-> 250, cacheReadPer1M |-> 5, cacheWritePer1M |-> 62]}

TokenCounts == {0, 1, PerMillion}

Usages ==
    [inputTokens : TokenCounts, outputTokens : TokenCounts,
     cacheReadTokens : TokenCounts, cacheWriteTokens : TokenCounts]

\* a caller prices a usage
InitCost ==
    /\ stream = NewStream
    /\ cpc = [c \in Consumers |-> "unused"]
    /\ received = [c \in Consumers |-> <<>>]
    /\ trace = <<>>
    /\ ops = <<>>
    /\ adapter = "none"
    /\ pc = "idle"
    /\ output = NewOutput
    /\ local = Undefined
    /\ aborted = FALSE
    /\ reasoning = "none"
    /\ wire = 0
    /\ outcome = None
    /\ invoked = <<>>
    /\ \E provider \in Providers, pricing \in Pricings, usage \in Usages,
          serviceTier \in ServiceTiers :
         args = Some([model |-> [provider |-> provider, pricing |-> pricing],
                      usage |-> usage, serviceTier |-> serviceTier])
    /\ returned = <<>>

\* calculateCost(model, usage, serviceTier) returns
CalculateCost ==
    /\ args # None
    /\ returned = <<>>
    /\ returned' = <<calculateCost(args[1].model, args[1].usage, args[1].serviceTier)>>
    /\ UNCHANGED <<stream, cpc, received, trace, ops, adapter, pc, output, local, aborted,
                   reasoning, wire, outcome, invoked, args>>

SpecCost == InitCost /\ [][CalculateCost]_vars

\* ------------------------------------------- StreamController.setUsage, priced
\* the usage reports of a vendor within one call
UsageReports ==
    {usage \in Usages :
        /\ usage.inputTokens = usage.outputTokens
        /\ usage.cacheReadTokens = usage.cacheWriteTokens}

\* emptyUsage() with its cost
pricedEmptyUsage ==
    [tokens |-> [inputTokens |-> 0, outputTokens |-> 0,
                 cacheReadTokens |-> 0, cacheWriteTokens |-> 0],
     cost |-> [input |-> 0, output |-> 0, cacheRead |-> 0, cacheWrite |-> 0, total |-> 0]]

\* the usage setUsage stores: { ...usage, cost: calculateCost(this.model, usage) },
\* the third argument of calculateCost is not passed
pricedUsage(model, usage) ==
    [tokens |-> usage, cost |-> calculateCost(model, usage, None)]

\* a controller is bound to a model and to the options of the call
InitUsage ==
    /\ stream = NewStream
    /\ cpc = [c \in Consumers |-> "unused"]
    /\ received = [c \in Consumers |-> <<>>]
    /\ trace = <<>>
    /\ ops = <<>>
    /\ adapter = "none"
    /\ pc = "idle"
    /\ output = [NewOutput EXCEPT !.usage = pricedEmptyUsage]
    /\ local = Undefined
    /\ aborted = FALSE
    /\ reasoning = "none"
    /\ wire = 0
    /\ outcome = None
    /\ invoked = <<>>
    /\ \E provider \in Providers, pricing \in Pricings, serviceTier \in ServiceTiers :
         args = Some([model |-> [provider |-> provider, pricing |-> pricing],
                      serviceTier |-> serviceTier])
    /\ returned = <<>>

\* ctrl.setUsage(usage); returned keeps the reports in order
SetUsage(usage) ==
    /\ args # None
    /\ pc = "idle"
    /\ Len(returned) < MaxReports
    /\ output' = [output EXCEPT !.usage = pricedUsage(args[1].model, usage)]
    /\ returned' = Append(returned, usage)
    /\ UNCHANGED <<stream, cpc, received, trace, ops, adapter, pc, local, aborted,
                   reasoning, wire, outcome, invoked, args>>

\* the usage lines of ctrl.finish()
FinishUsage ==
    /\ args # None
    /\ pc = "idle"
    /\ pc' = "closed"
    /\ output' = [output EXCEPT !.usage = pricedUsage(args[1].model, output.usage.tokens)]
    /\ UNCHANGED <<stream, cpc, received, trace, ops, adapter, local, aborted,
                   reasoning, wire, outcome, invoked, args, returned>>

NextUsage ==
    \/ \E usage \in UsageReports : SetUsage(usage)
    \/ FinishUsage

SpecUsage == InitUsage /\ [][NextUsage]_vars

\* --------------------------------------------------------- parseStreamingJson
\* JSON text is the sequence of its tokens: braces, a member "a":1, a
\* comma, the literal null, its truncation nu, and a blank
JsonTokens == {"{", "}", "\"a\":1", ",", "null", "nu", " "}

IsJsonToken(token) == token # " "

\* JSON values
JsonNull == [kind |-> "null", keys |-> {}]
JsonObject(keys) == [kind |-> "object", keys |-> keys]
SyntaxError == [isError |-> TRUE, message |-> "Unexpected token", string |-> "SyntaxError"]

\* tokens is member (, member)*, with a trailing comma if allowed
IsMemberList(tokens, trailingComma) ==
    /\ \A i \in 1..Len(tokens) :
         tokens[i] = (IF i % 2 = 1 THEN "\"a\":1" ELSE ",")
    /\ trailingComma \/ Len(tokens) % 2 = 1

\* the object with the members of the token list
ObjectOf(tokens) == JsonObject(IF Len(tokens) > 0 THEN {"a"} ELSE {})

\* JSON.parse: the value, or the SyntaxError it throws
JSONparse(text) ==
    LET tokens == SelectSeq(text, IsJsonToken)
        inner == SubSeq(tokens, 2, Len(tokens) - 1)
    IN  IF tokens = <<"null">> THEN Returned(JsonNull)
        ELSE IF /\ Len(tokens) >= 2
                /\ tokens[1] = "{"
                /\ tokens[Len(tokens)] = "}"
                /\ (inner = <<>> \/ IsMemberList(inner, FALSE))
        THEN Returned(ObjectOf(inner))
        ELSE Thrown(SyntaxError)

\* parse of the partial-json package: the value of the longest prefix
\* that can be completed, or the error it throws for text that is no
\* prefix of JSON
partialParse(text) ==
    LET tokens == SelectSeq(text, IsJsonToken)
        inner == Tail(tokens)
    IN  IF tokens = <<"nu">> THEN Returned(JsonNull)
        ELSE IF /\ Len(tokens) >= 1
                /\ tokens[1] = "{"
                /\ IsMemberList(inner, TRUE)
        THEN Returned(ObjectOf(inner))
        ELSE Thrown(SyntaxError)

\* parseStreamingJson: what it returns, or what it throws
parseStreamingJson(partialJson) ==
    IF partialJson = None \/ SelectSeq(partialJson[1], IsJsonToken) = <<>>
    THEN Returned(JsonObject({}))
    ELSE LET parsed == JSONparse(partialJson[1])
             completed == partialParse(partialJson[1])
         IN  IF ~parsed.threw THEN parsed
             ELSE IF completed.threw THEN Returned(JsonObject({}))
             ELSE IF completed.value = JsonNull THEN Returned(JsonObject({}))
             ELSE completed

\* parseFinalToolArgs of part_005
parseFinalToolArgs(arguments) ==
    IF SelectSeq(arguments, IsJsonToken) = <<>> THEN Returned(JsonObject({}))
    ELSE LET parsed == JSONparse(arguments)
         IN  IF ~parsed.threw THEN parsed ELSE parseStreamingJson(Some(arguments))

\* the arguments of a finished tool call: JSON.parse(item.arguments) in
\* streamOpenAI of openai.ts, parseFinalToolArgs(item) in part_005,
\* parseStreamingJson(json) at content_block_stop in streamAnthropic
finalToolArgs(revision, arguments) ==
    CASE revision = "openai.ts" -> JSONparse(arguments)
      [] revision = "part_005" -> parseFinalToolArgs(arguments)
      [] OTHER -> parseStreamingJson(Some(arguments))

\* the adapters that accumulate argument text
JsonRevisions == {"anthropic.ts", "openai.ts", "part_005"}

\* what an argument fragment does to the args of the draft part: the
\* OpenAI adapters parse the accumulated text, streamAnthropic only stores
\* the text and leaves part.args as it is
argsAfterDelta(revision, next) ==
    IF revision = "anthropic.ts" THEN <<>> ELSE <<parseStreamingJson(next)>>

\* an adapter accumulates the argument text of one tool call; the part
\* starts with args: {}
InitJson ==
    /\ stream = NewStream
    /\ cpc = [c \in Consumers |-> "unused"]
    /\ received = [c \in Consumers |-> <<>>]
    /\ trace = <<>>
    /\ ops = <<>>
    /\ adapter = "none"
    /\ pc = "idle"
    /\ output = NewOutput
    /\ local = Undefined
    /\ aborted = FALSE
    /\ reasoning = "none"
    /\ wire = 0
    /\ outcome = None
    /\ invoked = <<>>
    /\ \E revision \in JsonRevisions :
         args = Some([revision |-> revision, partialJson |-> None, finished |-> FALSE,
                      partArgs |-> Returned(JsonObject({}))])
    /\ returned = <<>>

\* an argument delta arrives: the text grows by the fragment, the args of
\* the part are set as the adapter sets them, part_delta is pushed
JsonDelta(chunk) ==
    /\ args # None
    /\ ~args[1].finished
    /\ LET before == IF args[1].partialJson = None THEN <<>> ELSE args[1].partialJson[1]
           next == Some(Append(before, chunk))
           parsed == argsAfterDelta(args[1].revision, next)
       IN  /\ Len(before) < MaxJson
           /\ args' = Some([args[1] EXCEPT
                              !.partialJson = next,
                              !.partArgs = IF parsed = <<>> THEN @ ELSE parsed[1]])
           /\ returned' = returned \o parsed
    /\ UNCHANGED <<stream, cpc, received, trace, ops, adapter, pc, output, local, aborted,
                   reasoning, wire, outcome, invoked>>

\* the tool call is done: the adapter sets the final args
JsonDone ==
    /\ args # None
    /\ ~args[1].finished
    /\ LET final == finalToolArgs(args[1].revision,
                                  IF args[1].partialJson = None THEN <<>>
                                  ELSE args[1].partialJson[1])
       IN  /\ args' = Some([args[1] EXCEPT !.finished = TRUE, !.partArgs = final])
           /\ returned' = Append(returned, final)
    /\ UNCHANGED <<stream, cpc, received, trace, ops, adapter, pc, output, local, aborted,
                   reasoning, wire, outcome, invoked>>

NextJson ==
    \/ \E chunk \in JsonTokens : JsonDelta(chunk)
    \/ JsonDone

SpecJson == InitJson /\ [][NextJson]_vars

\* ------------------------------------------------------------ properties
IsTerminal(event) == event.type = "done" \/ event.type = "error"
IsPartEvent(event) == event.type \in {"part_start", "part_delta", "part_end"}
Terminals(seq) == {i \in DOMAIN seq : IsTerminal(seq[i])}

\* C1: a call whose adapter task has completed has pushed exactly one
\* terminal event (done or error), no call ever pushes two, and a consumer
\* whose iteration has ended has observed exactly that one.
C1_ExactlyOneTerminal ==
    /\ Cardinality(Terminals(trace)) <= 1
    /\ pc = "closed" => Cardinality(Terminals(trace)) = 1
    /\ \A c \in Consumers :
         /\ Cardinality(Terminals(received[c])) <= 1
         /\ cpc[c] = "returned" =>
              /\ Cardinality(Terminals(received[c])) = 1
              /\ received[c] = trace

C1_Witness ==
    /\ pc = "closed"
    /\ cpc[1] = "returned"
    /\ Len(received[1]) >= 3
    /\ IsTerminal(received[1][Len(received[1])])

\* C2: in the consumer-visible event sequence every terminal event is
\* preceded by a start event, also when opening the vendor call fails.
C2_StartBeforeTerminal ==
    \A i \in DOMAIN trace :
        IsTerminal(trace[i]) => \E j \in 1..(i - 1) : trace[j].type = "start"

\* C4: for every part index, part_start precedes every part_delta and the
\* part_end, no part_delta follows the part_end of its index, and no part
\* event follows the terminal event.
C4_PartEventOrder ==
    \A j \in DOMAIN trace :
        /\ trace[j].type \in {"part_delta", "part_end"} =>
             \E i \in 1..(j - 1) :
                trace[i].type = "part_start" /\ trace[i].index = trace[j].index
        /\ trace[j].type = "part_delta" =>
             \A i \in 1..(j - 1) :
                ~(trace[i].type = "part_end" /\ trace[i].index = trace[j].index)
        /\ IsPartEvent(trace[j]) => \A i \in 1..(j - 1) : ~IsTerminal(trace[i])

\* C5: every part index that received part_start has received a matching
\* part_end before the terminal event, however the call ends.
C5_EveryPartEnded ==
    \A t \in Terminals(trace) :
        \A i \in 1..(t - 1) :
            trace[i].type = "part_start" =>
                \E j \in (i + 1)..(t - 1) :
                    trace[j].type = "part_end" /\ trace[j].index = trace[i].index

\* C10: a terminal error event carries stop reason error or aborted and a
\* non-empty errorMessage; a terminal done event carries stop, length or
\* tool_use; usage and stop reason are set in both.
C10_TerminalMessageShape ==
    \A i \in Terminals(trace) :
        LET m == trace[i].message
        IN  /\ trace[i].type = "error" =>
                 m.stopReason \in {"error", "aborted"} /\ ~falsy(m.errorMessage)
            /\ trace[i].type = "done" => m.stopReason \in {"stop", "length", "tool_use"}
            /\ m.usage \in {emptyUsage} \cup ReportedUsage

\* ------------------------------------------- properties of the bare stream
SingleConsumer == \A c \in Consumers : c # 1 => cpc[c] = "unused"
Finished(c) == cpc[c] \in {"unused", "returned"}
\* the event a resolved waiter holds and has not yielded yet
InFlight(c) ==
    IF cpc[c] = "awaiting" /\ stream.wake[c].settled /\ ~stream.wake[c].done
    THEN stream.wake[c].value
    ELSE <<>>
RECURSIVE IsSubseq(_, _)
IsSubseq(a, b) ==
    IF a = <<>> THEN TRUE
    ELSE IF b = <<>> THEN FALSE
    ELSE IF Head(a) = Head(b) THEN IsSubseq(Tail(a), Tail(b))
    ELSE IsSubseq(a, Tail(b))
Ended == "end" \in Range(ops)
Closed == Ended \/ "complete" \in Range(ops)

\* C3: with a single consumer, the events it has received, the event it has
\* been handed and the buffered events are together exactly the events
\* pushed up to and including the closing one, in push order; when its
\* iteration ends it has received them all.
C3_SingleConsumerExactSequence ==
    SingleConsumer =>
        /\ received[1] \o InFlight(1) \o stream.queue = trace
        /\ cpc[1] = "returned" => received[1] = trace

C3_Witness ==
    /\ SingleConsumer
    /\ cpc[1] = "returned"
    /\ Len(received[1]) >= 3
    /\ isComplete(received[1][Len(received[1])])

\* C8: a push on a closed stream changes nothing (no buffering, no delivery,
\* no second resolution of the result), and in what any consumer receives
\* nothing follows the terminal event.
C8_PushAfterCloseIsNoOp ==
    /\ [][(stream.done /\ \E kind \in {"event", "complete"} : ProducerPush(kind))
            => (stream' = stream /\ trace' = trace /\ received' = received /\ cpc' = cpc)]_vars
    /\ [](\A c \in Consumers :
             /\ \A i \in 1..(Len(received[c]) - 1) : ~isComplete(received[c][i])
             /\ IsSubseq(received[c], trace))

C8_Witness ==
    /\ \E i, j \in DOMAIN ops : i < j /\ ops[i] = "complete" /\ ops[j] # "end"
    /\ cpc[1] = "returned"
    /\ isComplete(received[1][Len(received[1])])

\* C9: after end() nobody is left waiting on the stream, every consumer's
\* iteration eventually terminates, and by then every buffered event has
\* been delivered, each consumer receiving its events in push order.
C9_EndReleasesConsumers ==
    /\ [](Ended => /\ stream.waiting = <<>>
                   /\ \A c \in Consumers :
                        cpc[c] = "awaiting" => stream.wake[c].settled)
    /\ (Ended ~> \A c \in Consumers : Finished(c))
    /\ []((Ended /\ \A c \in Consumers : Finished(c)) =>
             /\ stream.queue = <<>>
             /\ \A c \in Consumers : IsSubseq(received[c], trace)
             /\ \A i \in DOMAIN trace : \E c \in Consumers : trace[i] \in Range(received[c]))

C9_Witness ==
    /\ Ended
    /\ ~Closed \/ "complete" \notin Range(ops)
    /\ \E c \in Consumers : cpc[c] = "awaiting" /\ stream.wake[c] = IterDone
    /\ \E c \in Consumers : Len(received[c]) >= 1

\* --------------------------------------------- properties of adapter calls
\* C7: once the call is made and the vendor sequence ends or throws, the
\* stream closes and result() resolves; the resolved value is the adapter's
\* final message and never changes, however much of the stream was consumed,
\* and a consumer that iterates reaches the end of its iteration.
C7_AlwaysResolves ==
    /\ <>(stream.done /\ stream.finalResult # None /\ \A c \in Consumers : Finished(c))
    /\ [](stream.finalResult # None => stream.finalResult = Some(output))
    /\ [][stream.finalResult # None => stream.finalResult' = stream.finalResult]_vars

C7_Witness ==
    /\ stream.finalResult # None
    /\ cpc[1] = "top"
    /\ Len(received[1]) >= 1
    /\ Len(received[1]) < Len(trace)

\* C6: on every stream returned by a provider adapter or by agent(), the
\* result is resolved only once a terminal event has been pushed, and its
\* value is the message or result embedded in that terminal event.
C6_ResultIsTerminalPayload ==
    stream.finalResult # None =>
        \E i \in DOMAIN trace :
            /\ isComplete(trace[i])
            /\ i = Len(trace)
            /\ stream.finalResult = Some(trace[i].message)

C6_Witness ==
    /\ adapter = "agent"
    /\ stream.finalResult # None
    /\ Len(stream.finalResult[1].messages) >= 3
    /\ stream.finalResult[1].stopReason = "stop"

\* ---------------------------------------- properties of finish() and fail()
\* C11: when a controller-based adapter reaches finish() with the signal not
\* aborted, a draft stop reason stop becomes tool_use exactly when the
\* frozen part list has a tool_call part and otherwise stays stop, and the
\* stop reasons length, tool_use, error and aborted are left as they are.
C11_FinishPromotion ==
    [][(VendorEnd /\ usesController(adapter) /\ ~aborted) =>
          output'.stopReason =
              IF output.stopReason = "stop"
              THEN (IF hasToolCall(output'.content) THEN "tool_use" ELSE "stop")
              ELSE output.stopReason]_vars

C11_Witness ==
    /\ adapter = "openai"
    /\ pc = "closed"
    /\ ~aborted
    /\ hasToolCall(output.content)
    /\ output.stopReason = "tool_use"
    /\ trace[Len(trace)].type = "done"

\* C12: a call that reached finish() or fail() (or the inline equivalent)
\* with the signal aborted has ended with a terminal error event whose
\* message has stop reason aborted and a non-empty errorMessage.
C12_AbortedEndsAborted ==
    (pc = "closed" /\ aborted /\ adapter \in Adapters) =>
        LET last == trace[Len(trace)]
        IN  /\ last.type = "error"
            /\ last.message.stopReason = "aborted"
            /\ ~falsy(last.message.errorMessage)

\* the wire events by which a vendor reports an error
VendorErrorTypes == {"error", "response.failed"}

\* a step in which opening or consuming the vendor sequence throws
ThrowStep ==
    /\ pc # "closed"
    /\ pc' = "closed"
    /\ \/ \E message \in ErrorTexts : OpenReject(message) \/ VendorThrow(message)
       \/ Invoke
       \/ wire' = wire + 1 /\ \E event \in AllWire : VendorEvent(event)

\* C13: every exception thrown while opening or consuming the vendor
\* sequence, and every vendor-reported error event, closes the call with
\* exactly one terminal event, an error event; the catch path keeps the parts
\* and the usage accumulated so far and sets only stop reason and
\* errorMessage.
C13_ExactlyOneFail ==
    /\ [][ThrowStep =>
            /\ trace'[Len(trace')].type = "error"
            /\ Cardinality(Terminals(trace')) = 1
            /\ Cardinality(Terminals(trace)) = 0
            /\ stream'.done]_vars
    /\ [][\A event \in AllWire :
            (event.type \in VendorErrorTypes /\ wire' = wire + 1 /\ VendorEvent(event)) =>
                pc' = "closed" /\ trace'[Len(trace')].type = "error"]_vars
    /\ [][(/\ pc # "closed"
            /\ pc' = "closed"
            /\ \E message \in ErrorTexts : OpenReject(message) \/ VendorThrow(message)) =>
            /\ output'.content = output.content
            /\ output'.usage = output.usage]_vars
    /\ []((adapter \in Adapters /\ pc # "closed") =>
            \A message \in ErrorTexts :
                LET failed == catch(adapter, K, aborted, message).output
                IN  failed = [output EXCEPT !.stopReason = failed.stopReason,
                                            !.errorMessage = failed.errorMessage])

C13_Witness ==
    /\ adapter = "openai"
    /\ pc = "closed"
    /\ trace[Len(trace)].type = "error"
    /\ output.errorMessage = "OpenAI request failed"
    /\ Len(output.content) >= 1
    /\ output.usage \in ReportedUsage

\* ------------------------------------------------ properties of the caller
\* C14: on an AssistantStream and on an AgentStream alike, resultOrThrow()
\* rejects exactly when the resolved result's stop reason is error or
\* aborted, the error it rejects with has the whole result attached, and
\* otherwise it resolves to the very value result() resolves to.
C14_ResultOrThrow ==
    outcome # None =>
        LET result == stream.finalResult[1]
            settled == outcome[1]
        IN  /\ stream.finalResult # None
            /\ settled.state = "rejected" <=> result.stopReason \in {"error", "aborted"}
            /\ settled.state = "rejected" => settled.value.attached = result
            /\ settled.state = "fulfilled" =>
                  /\ settled.value = result
                  /\ result.stopReason \in {"stop", "length", "tool_use"}

C14_Witness ==
    /\ adapter = "agent"
    /\ outcome # None
    /\ outcome[1].state = "rejected"
    /\ outcome[1].value.attached.stopReason = "aborted"
    /\ Len(outcome[1].value.attached.messages) >= 1

\* C15: a pre-flight validation error (missing credential, invalid tool
\* schema, tools with a model that does not support them) is thrown to the
\* caller of stream() or agent() before any stream is opened: the call that
\* fails it has emitted nothing, and no event of a returned stream carries
\* a pre-flight error.
C15_PreflightThrownSynchronously ==
    /\ pc = "thrown" => trace = <<>> /\ ~stream.done /\ stream.finalResult = None
    /\ adapter = "agent" => local.thrown = None
    /\ \A i \in 1..Len(trace) :
          IsTerminal(trace[i]) => trace[i].message.errorMessage \notin PreflightErrors

\* ------------------------------------------------- properties of agent()
\* the events of these types an agent run has emitted
EventsOf(types) == {i \in 1..Len(trace) : trace[i].type \in types}

\* the tool loop stands at a call whose tool has no handler
AtUnknownTool ==
    /\ adapter = "agent"
    /\ local.next <= Len(local.calls)
    /\ local.calls[local.next].name \notin handlers

\* C16: when the tool loop comes to a call whose tool has no handler, the
\* run is over: it has emitted exactly one terminal event, an error whose
\* errorMessage names the unknown tool and whose history holds the assistant
\* message with the unmatched call followed by the tool entries of the calls
\* before it; no handler was invoked for that call or a later call of the
\* turn, and no further turn has started. No handler is ever invoked for a
\* tool that has none.
C16_UnknownToolTerminates ==
    /\ \A k \in 1..Len(invoked) : invoked[k].call.name \in handlers
    /\ (adapter = "agent" /\ pc = "handler") => local.calls[local.next].name \in handlers
    /\ AtUnknownTool =>
          LET call == local.calls[local.next]
              last == trace[Len(trace)]
              result == last.message
              at == Len(result.messages) - (local.next - 1)
          IN  /\ pc = "closed"
              /\ stream.done
              /\ last.type = "error"
              /\ EventsOf({"done", "error"}) = {Len(trace)}
              /\ result.stopReason = "error"
              /\ result.errorMessage = "Unknown tool: " \o call.name
              /\ stream.finalResult = Some(result)
              /\ result.messages = local.messages
              /\ at >= 1
              /\ result.messages[at].role = "assistant"
              /\ result.messages[at].calls = local.calls
              /\ \A j \in (at + 1)..Len(result.messages) :
                    /\ result.messages[j].role = "tool"
                    /\ result.messages[j].toolCallId = local.calls[j - at].id
              /\ \A k \in 1..Len(invoked), j \in local.next..Len(local.calls) :
                    ~(invoked[k].turn = local.turn /\ invoked[k].call = local.calls[j])
              /\ \A i \in EventsOf({"turn_start"}) : trace[i].index <= local.turn

C16_Witness ==
    /\ AtUnknownTool
    /\ local.next = 2
    /\ Len(invoked) = 1
    /\ trace[Len(trace)].type = "error"

\* the run was configured with maxTurns and has used all its turns
AtTurnLimit == adapter = "agent" /\ local.maxTurns # None /\ local.turn >= local.maxTurns[1]

\* C17: with maxTurns = N, an agent run emits at most N turn_start events
\* (one per streaming call, for turns 0, 1, ... in order); once N turns have
\* completed without ending the run, it emits one terminal error event
\* (maxTurns exceeded) over the history so far and is over; and when every
\* streaming call and every handler terminates, the run terminates.
C17_MaxTurnsTerminates ==
    /\ [](local.maxTurns # None =>
            /\ Cardinality(EventsOf({"turn_start"})) <= local.maxTurns[1]
            /\ \A i \in EventsOf({"turn_start"}) :
                  trace[i].index = Cardinality({j \in EventsOf({"turn_start"}) : j < i}))
    /\ [](AtTurnLimit =>
            LET last == trace[Len(trace)]
            IN  /\ pc = "closed"
                /\ stream.done
                /\ last.type = "error"
                /\ last.message = AgentResult(local.messages, "error", "maxTurns exceeded")
                /\ EventsOf({"done", "error"}) = {Len(trace)}
                /\ Cardinality(EventsOf({"turn_start"})) = local.maxTurns[1])
    /\ (local.maxTurns # None ~> (pc = "closed" /\ stream.done /\ stream.finalResult # None))

C17_Witness ==
    /\ AtTurnLimit
    /\ pc = "closed"
    /\ trace[Len(trace)].message.errorMessage = "maxTurns exceeded"
    /\ Len(invoked) = 2

IsToolMessage(message) == message.role = "tool"
IsAssistantMessage(message) == message.role = "assistant"
IsToolResult(event) == event.type = "tool_result"

\* C18: handlers run one at a time in the order of the tool_call parts. At
\* most one invocation is unsettled, and only while the task awaits it; a
\* handler is invoked only when every earlier call of the turn has its tool
\* entry in the history; the invocations of a turn follow the turn's calls
\* from the first on; and the tool entries and the tool_result events are,
\* in order, those of the invocations, whenever each handler settles.
C18_HandlersSequential ==
    /\ [](adapter = "agent" =>
            LET entries == SelectSeq(local.messages, IsToolMessage)
                assistants == SelectSeq(local.messages, IsAssistantMessage)
                results == SelectSeq(trace, IsToolResult)
            IN  /\ Len(invoked) - Len(entries) = (IF pc = "handler" THEN 1 ELSE 0)
                /\ Len(results) = Len(entries)
                /\ \A k \in 1..Len(entries) :
                      /\ entries[k].toolCallId = invoked[k].call.id
                      /\ entries[k].toolName = invoked[k].call.name
                      /\ results[k].message = entries[k]
                      /\ results[k].index = invoked[k].turn
                /\ \A k \in 1..Len(invoked) :
                      /\ invoked[k].turn + 1 <= Len(assistants)
                      /\ invoked[k].call.id <= Len(assistants[invoked[k].turn + 1].calls)
                      /\ assistants[invoked[k].turn + 1].calls[invoked[k].call.id]
                            = invoked[k].call
                      /\ invoked[k].call.id =
                            1 + Cardinality({j \in 1..(k - 1) : invoked[j].turn = invoked[k].turn})
                      /\ \A j \in 1..(k - 1) : invoked[j].turn <= invoked[k].turn)
    /\ [][(adapter = "agent" /\ invoked' # invoked) =>
            /\ pc' = "handler"
            /\ \E entry \in {[turn |-> local'.turn, call |-> local'.calls[local'.next]]} :
                  invoked' = Append(invoked, entry)
            /\ \A j \in 1..(local'.next - 1) :
                  LET at == Len(local'.messages) - (local'.next - 1) + j
                  IN  /\ local'.messages[at].role = "tool"
                      /\ local'.messages[at].toolCallId = local'.calls[j].id]_vars

C18_Witness ==
    /\ adapter = "agent"
    /\ pc = "handler"
    /\ Len(invoked) = 2
    /\ invoked[1].turn = invoked[2].turn
    /\ Len(SelectSeq(trace, IsToolResult)) = 1

\* C19: when an awaited handler settles, the run appends one tool entry for
\* the call and emits it as tool_result: isError true and the error's
\* message (for a thrown value that is no Error, its string form) when the
\* handler threw, isError false and the stringified return value when it
\* returned. A throw does not end the run: either way the loop goes on to
\* the next call of the turn or, after the last call, to the next turn.
C19_HandlerErrorsAreToolResults ==
    [][\A settled \in HandlerSettlements, preflight \in Preflights :
         AgentHandlerSettle(settled, preflight) =>
           LET call == local.calls[local.next]
               value == settled.value
               entry == local'.messages[Len(local.messages) + 1]
           IN  /\ Len(local'.messages) = Len(local.messages) + 1
               /\ SubSeq(local'.messages, 1, Len(local.messages)) = local.messages
               /\ entry.role = "tool"
               /\ entry.toolCallId = call.id
               /\ entry.toolName = call.name
               /\ entry.isError = settled.threw
               /\ settled.threw =>
                     entry.content = (IF value.isError THEN value.message ELSE value.string)
               /\ ~settled.threw =>
                     entry.content = (CASE value.kind = "string" -> value.string
                                        [] value.kind = "object" -> value.json
                                        [] value.kind = "undefined" -> "undefined"
                                        [] OTHER -> entry.content)
               /\ Len(trace') > Len(trace)
               /\ SubSeq(trace', 1, Len(trace) + 1)
                     = Append(trace, Event("tool_result", local.turn, entry))
               /\ local.next < Len(local.calls) =>
                     /\ local'.next = local.next + 1
                     /\ local'.turn = local.turn
                     /\ IF local.calls[local.next + 1].name \in handlers
                        THEN /\ pc' = "handler"
                             /\ invoked' = Append(invoked, [turn |-> local.turn,
                                                            call |-> local.calls[local.next + 1]])
                        ELSE /\ pc' = "closed"
                             /\ trace'[Len(trace')].message.errorMessage
                                   = "Unknown tool: " \o local.calls[local.next + 1].name
               /\ local.next = Len(local.calls) =>
                     /\ local'.turn = local.turn + 1
                     /\ invoked' = invoked
                     /\ IF local.maxTurns # None /\ local.turn + 1 >= local.maxTurns[1]
                        THEN /\ pc' = "closed"
                             /\ trace'[Len(trace')].message.errorMessage = "maxTurns exceeded"
                        ELSE /\ pc' \in {"iterating", "rejected"}
                             /\ trace'[Len(trace')] = Event("turn_start", local.turn + 1, NoMessage)
      ]_vars

\* C20: when the assistant message of the first turn has no tool_call parts
\* and a stop reason other than error and aborted, the run ends there: it
\* has emitted exactly one turn_start, no tool_result and no error, and
\* exactly one done event, the last, whose history is that one assistant
\* message; no handler was invoked; result() resolves to the done payload;
\* and a run that has ended emits nothing more.
C20_NoToolCallsEndsAfterOneTurn ==
    /\ [][\A assistant \in AssistantResults :
           (/\ AgentAssistant(assistant)
            /\ local.turn = 0
            /\ assistant.calls = <<>>
            /\ assistant.stopReason \notin {"error", "aborted"}) =>
               LET result == AgentResult(<<assistant>>, assistant.stopReason,
                                         assistant.errorMessage)
               IN  /\ pc' = "closed"
                   /\ stream'.done
                   /\ stream'.finalResult = Some(result)
                   /\ trace'[Len(trace')] = Event("done", -1, result)
                   /\ \A i \in 1..Len(trace') :
                         /\ trace'[i].type = "done" => i = Len(trace')
                         /\ trace'[i].type = "turn_start" => i = 1
                         /\ trace'[i].type \notin {"error", "tool_result"}
                   /\ trace'[1] = Event("turn_start", 0, NoMessage)
                   /\ invoked' = <<>>]_vars
    /\ [][(adapter = "agent" /\ pc = "closed") =>
            pc' = "closed" /\ trace' = trace /\ invoked' = invoked /\ local' = local]_vars

C20_Witness ==
    /\ adapter = "agent"
    /\ pc = "closed"
    /\ Len(local.messages) = 1
    /\ local.messages[1].stopReason = "length"
    /\ Len(trace) = 3
    /\ trace[3].type = "done"

\* C21: when a turn's assistant message has stop reason error or aborted,
\* the run appends it to the history and ends with one terminal error event
\* that carries the history, that stop reason and the message's
\* errorMessage; no handler is invoked for it, tool_call parts or not, and no
\* further turn starts.
C21_FailedTurnEndsRun ==
    [][\A assistant \in AssistantResults :
         (AgentAssistant(assistant) /\ assistant.stopReason \in {"error", "aborted"}) =>
            LET history == Append(local.messages, assistant)
                result == AgentResult(history, assistant.stopReason, assistant.errorMessage)
            IN  /\ local'.messages = history
                /\ pc' = "closed"
                /\ stream'.done
                /\ stream'.finalResult = Some(result)
                /\ trace' = Append(trace, Event("error", -1, result))
                /\ EventsOf({"done", "error"}) = {}
                /\ invoked' = invoked
                /\ local'.turn = local.turn]_vars

C21_Witness ==
    /\ adapter = "agent"
    /\ pc = "closed"
    /\ local.turn = 1
    /\ local.messages[Len(local.messages)].role = "assistant"
    /\ local.messages[Len(local.messages)].stopReason = "aborted"
    /\ local.messages[Len(local.messages)].calls # <<>>
    /\ Len(invoked) = 1
    /\ trace[Len(trace)].type = "error"
    /\ trace[Len(trace)].message.stopReason = "aborted"

\* ------------------------------------ properties of normalizeContextForTarget
\* the assistant messages of a conversation the target model produced
ProducedByTarget(msg) ==
    msg.role = "assistant" => (msg.provider = Some(Target.provider) /\ msg.model = Some(Target.id))

\* C22: for a conversation whose assistant entries were all produced by the
\* target model, normalizing the normalized conversation again for the same
\* target gives the same system text and the same entries with the same
\* parts in the same order.
C22_NormalizeIdempotent ==
    (/\ args # None
     /\ Len(returned) >= 2
     /\ \A i \in 1..Len(args[1].context.messages) :
           ProducedByTarget(args[1].context.messages[i])) =>
        \A k \in 2..Len(returned) : returned[k] = returned[1]

C22_Witness ==
    /\ args # None
    /\ Len(returned) = 2
    /\ Len(args[1].context.messages) = 2
    /\ args[1].context.messages[1] = SystemMsg(<<"a", " ">>)
    /\ args[1].context.messages[2].role = "assistant"
    /\ ProducedByTarget(args[1].context.messages[2])
    /\ args[1].context.messages[2].content.isString
    /\ args[1].context.system = Some(<<" ", "a">>)
    /\ returned[1].system = Some(<<"a", "\n", "\n", "a">>)
    /\ Len(returned[1].messages) = 1
    /\ returned[2] = returned[1]

\* what identifies a part: its variant and text, or its variant, id, name
\* and args
Essential(part) ==
    IF part.type = "tool_call"
    THEN <<part.type, part.id, part.name, part.args>>
    ELSE <<part.type, part.text>>

IsNotThinking(part) == part.type # "thinking"

\* C23: normalizing an assistant entry that another backend or model
\* produced drops its thinking parts and keeps its text and tool_call parts
\* as they are (variant, text, id, name, args) in their order; the
\* normalized conversation holds the entry in that form unless nothing of
\* it is left.
C23_ForeignEntryKeepsTextAndCalls ==
    (args # None /\ Len(returned) >= 1) =>
        \A i \in 1..Len(args[1].context.messages) :
            LET msg == args[1].context.messages[i]
            IN  (msg.role = "assistant" /\ ~ProducedByTarget(msg)) =>
                  LET before == SelectSeq(coerceAssistantContent(msg.content), IsNotThinking)
                      normalized == normalizeAssistantMessage(args[1].revision,
                                                              args[1].target, msg)
                      after == normalized.content.parts
                  IN  /\ ~normalized.content.isString
                      /\ Len(after) = Len(before)
                      /\ \A k \in 1..Len(after) : Essential(after[k]) = Essential(before[k])
                      /\ Len(after) > 0 =>
                            \E j \in 1..Len(returned[1].messages) :
                                returned[1].messages[j] = normalized

IsToolEntry(msg) == msg.role = "tool"
IsUserEntry(msg) == msg.role = "user"

\* the tool entry as the claim wants it kept: isError false when absent
WithIsError(msg) == [msg EXCEPT !.isError = IF @ = None THEN Some(FALSE) ELSE @]

\* C24: the tool entries of the normalized conversation are the tool
\* entries of the conversation, in their order, with toolCallId, toolName
\* and content unchanged and isError false when it was absent, whether or
\* not the target produced the matching tool call; every user entry of the
\* normalized conversation is a user entry of the conversation.
C24_ToolResultsKept ==
    (args # None /\ Len(returned) >= 1) =>
        LET before == SelectSeq(args[1].context.messages, IsToolEntry)
            after == SelectSeq(returned[1].messages, IsToolEntry)
            users == SelectSeq(returned[1].messages, IsUserEntry)
        IN  /\ Len(after) = Len(before)
            /\ \A k \in 1..Len(after) : after[k] = WithIsError(before[k])
            /\ \A k \in 1..Len(users) :
                  \E i \in 1..Len(args[1].context.messages) :
                      args[1].context.messages[i] = users[k]

\* ------------------------------------------------ properties of calculateCost
\* C25: each of the four buckets is tokens x price per million / 1,000,000
\* x multiplier and the total is their sum, the multiplier being 0.5 for
\* flex and 2 for priority with an openai model and 1 for every other
\* provider and tier; so one million input, output and cache-read tokens at
\* $2, $12 and $0.2 per million cost $14.2.
C25_CostIsPriceTimesTokens ==
    (args # None /\ returned # <<>>) =>
        LET model == args[1].model
            usage == args[1].usage
            cost == returned[1]
            halves == IF model.provider = "openai" /\ args[1].serviceTier = Some("flex") THEN 1
                      ELSE IF model.provider = "openai" /\ args[1].serviceTier = Some("priority")
                      THEN 4
                      ELSE 2
        IN  /\ cost.input = usage.inputTokens * model.pricing.inputPer1M * halves
            /\ cost.output = usage.outputTokens * model.pricing.outputPer1M * halves
            /\ cost.cacheRead = usage.cacheReadTokens * model.pricing.cacheReadPer1M * halves
            /\ cost.cacheWrite = usage.cacheWriteTokens * model.pricing.cacheWritePer1M * halves
            /\ cost.total = cost.input + cost.output + cost.cacheRead + cost.cacheWrite
            /\ (/\ halves = 2
                /\ usage = [inputTokens |-> PerMillion, outputTokens |-> PerMillion,
                            cacheReadTokens |-> PerMillion, cacheWriteTokens |-> 0]
                /\ model.pricing.inputPer1M = 20 /\ model.pricing.outputPer1M = 120
                /\ model.pricing.cacheReadPer1M = 2) =>
                  /\ cost.total = 142 * (CostUnits \div PriceUnits)
                  /\ cost.input = 2 * CostUnits
                  /\ cost.output = 12 * CostUnits
                  /\ cost.cacheRead = 2 * (CostUnits \div PriceUnits)

C25_Witness ==
    /\ args # None
    /\ returned # <<>>
    /\ args[1].model.provider = "anthropic"
    /\ args[1].serviceTier = Some("priority")
    /\ args[1].usage = [inputTokens |-> PerMillion, outputTokens |-> PerMillion,
                        cacheReadTokens |-> PerMillion, cacheWriteTokens |-> 0]
    /\ args[1].model.pricing.inputPer1M = 20
    /\ returned[1].total = 142 * (CostUnits \div PriceUnits)

\* ------------------------------------------- properties of parseStreamingJson
\* C26: parsing the accumulated argument text of a tool call never raises
\* and gives an object (a partial one, or {}) at every increment and for the
\* finished call, whatever the text is: empty, blank, truncated, malformed
\* or complete JSON of any kind.
C26_StreamingJsonNeverRaises ==
    \A k \in 1..Len(returned) :
        (args # None /\ "partialJson" \in DOMAIN args[1]) =>
            /\ ~returned[k].threw
            /\ returned[k].value.kind = "object"

\* ------------------------------------------------ properties of the adapters
\* C27: once the caller has signalled the AbortSignal of a call, the adapter
\* pushes no further part_start, part_delta or part_end event for that call,
\* even when the vendor sequence keeps yielding wire events.
C27_NoPartEventsAfterAbort ==
    [][(aborted /\ Len(trace') > Len(trace)) =>
          \A i \in (Len(trace) + 1)..Len(trace') : ~IsPartEvent(trace'[i])]_vars

\* C28: the draft a consumer observes through an event is the draft as it was
\* when the event was pushed: no later operation of the adapter changes what
\* an event pushed before shows.
C28_EventsAreSnapshots ==
    [][\A i \in DOMAIN trace :
          ~IsTerminal(trace[i]) => partial(trace[i], output') = partial(trace[i], output)]_vars

\* the wire events that carry a completion value no adapter has a case for
UnknownStopEvents ==
    {Wire("message_delta", 0, "bogus"),
     Wire("response.completed", 0, "bogus"),
     Wire("interaction.complete", 0, "bogus"),
     Wire("chunk", 0, "SAFETY")}

\* C29: in every adapter a vendor completion value without a mapping is a
\* fatal error: handling it either closes the call with an error event at
\* once or leaves the draft with stop reason error, and it never pushes a
\* done event.
C29_UnknownStopValueIsFatal ==
    [][\A event \in UnknownStopEvents :
          (wire' = wire + 1 /\ VendorEvent(event)) =>
              /\ \A i \in (Len(trace) + 1)..Len(trace') : trace'[i].type # "done"
              /\ \/ pc' = "closed" /\ trace'[Len(trace')].type = "error"
                 \/ pc' # "closed" /\ output'.stopReason = "error"]_vars

\* the wire events by which a vendor opens a reasoning block
ThinkingStartEvents ==
    {Wire("content_block_start", b, kind) :
        b \in Blocks, kind \in {"thinking", "redacted_thinking"}}
    \cup {Wire("response.output_item.added", b, "reasoning") : b \in Blocks}
    \cup {Wire("content.start", b, kind) : b \in Blocks, kind \in {"thought", "thought_signed"}}
    \cup {Wire("chunk", 0, kind) : kind \in {"thought", "thought_signed"}}

\* C30: in every adapter a thinking part is created only when the resolved
\* reasoning effort of the call is not none: with reasoning none a vendor
\* event that opens a reasoning block adds no part and pushes no event.
C30_ThinkingOnlyWhenReasoning ==
    [][(/\ reasoning = "none"
        /\ wire' = wire + 1
        /\ \E event \in ThinkingStartEvents : VendorEvent(event)) =>
            /\ trace' = trace
            /\ output'.content = output.content]_vars

\* C31: the final message of a call that completes through finish() holds
\* no thinking part without its backend's round-trip metadata: such parts are
\* removed at the end of the call, in each adapter.
C31_NoUnsignedThinkingInFinal ==
    (usesController(adapter) /\ pc = "closed") =>
        \A i \in DOMAIN trace :
            trace[i].type = "done" =>
                \A j \in DOMAIN trace[i].message.content :
                    trace[i].message.content[j].type = "thinking" =>
                        trace[i].message.content[j].meta

\* C32: after each argument fragment of a tool call the args of the draft
\* part are the tolerant parse of all argument text accumulated so far, so
\* every part_delta of a tool call is pushed with up-to-date args.
C32_ArgsFollowAccumulatedText ==
    [][(\E chunk \in JsonTokens : JsonDelta(chunk)) =>
          args'[1].partArgs = parseStreamingJson(args'[1].partialJson)]_vars

\* C33: after normalizing for a target, no part of an assistant entry that
\* another backend or model produced carries round-trip metadata: it is
\* dropped on text and tool_call parts as well as on thinking parts.
C33_ForeignEntryCarriesNoMeta ==
    (args # None /\ Len(returned) >= 1 /\ "context" \in DOMAIN args[1]) =>
        \A j \in 1..Len(returned[1].messages) :
            LET entry == returned[1].messages[j]
            IN  (entry.role = "assistant" /\ ~ProducedByTarget(entry)) =>
                    \A k \in 1..Len(entry.content.parts) :
                        entry.content.parts[k].meta = None

\* ------------------------------------------------------ properties of usage
\* C34: after any sequence of setUsage calls in one call the stored usage is
\* the last reported usage (replaced, never summed) and its cost is the cost
\* of that usage at the bound model's pricing and the call's service tier.
C34_UsageReplacedAndPriced ==
    (args # None /\ "serviceTier" \in DOMAIN args[1] /\ Len(returned) >= 1
     /\ "tokens" \in DOMAIN output.usage) =>
        /\ output.usage.tokens = returned[Len(returned)]
        /\ output.usage.cost =
              calculateCost(args[1].model, returned[Len(returned)], args[1].serviceTier)

\* ------------------------------------------------ properties of part indices
\* what a step of a call does to the part list
PartListStep ==
    /\ \A i \in (Len(trace) + 1)..Len(trace') :
          (trace'[i].type = "part_start") =>
              (trace'[i].index \in Len(output.content)..(Len(output'.content) - 1))
    /\ (pc' # "closed") => (Len(output'.content) >= Len(output.content))
    /\ (pc' = "closed") =>
          (\A j \in (DOMAIN output'.content) \cap (DOMAIN output.content) :
              output'.content[j] = output.content[j])

\* C35: part indices are stable: a part_start carries the number of parts
\* added before it, while the vendor sequence is consumed the part list only
\* grows, and the parts of the final message sit at the positions their
\* events carried, so no step moves a part to another position.
C35_PartIndicesStable == [][(adapter \in Adapters) => PartListStep]_vars

\* ------------------------------------------ properties of the agent's events
\* the assistant messages of a history, in order
AssistantsOf(messages) == SelectSeq(messages, IsAssistantMessage)

\* the proxied terminal event of a turn's streaming call
IsProxiedTerminal(event, turn) ==
    /\ event.type = "assistant_event"
    /\ event.index = turn
    /\ event.message # NoMessage

\* C36: in the agent's event sequence turn_start(k) precedes every
\* assistant_event(k); the terminal event of the turn's streaming call is
\* proxied as the last assistant_event(k) and carries the assistant message
\* that enters the history; every tool_result(k) follows that proxied
\* terminal event and precedes turn_start(k+1); and the agent's own terminal
\* event, exactly one, is the last event.
C36_AgentEventOrder ==
    adapter = "agent" =>
        /\ \A i \in DOMAIN trace :
              /\ trace[i].type = "turn_start" =>
                    trace[i].index = Cardinality({j \in 1..(i - 1) : trace[j].type = "turn_start"})
              /\ trace[i].type = "assistant_event" =>
                    /\ \E j \in 1..(i - 1) :
                          trace[j] = Event("turn_start", trace[i].index, NoMessage)
                    /\ \A j \in 1..(i - 1) :
                          /\ trace[j].type = "turn_start" => trace[j].index <= trace[i].index
                          /\ trace[j].type = "tool_result" => trace[j].index < trace[i].index
                          /\ ~IsProxiedTerminal(trace[j], trace[i].index)
              /\ trace[i].type = "tool_result" =>
                    /\ \E j \in 1..(i - 1) : IsProxiedTerminal(trace[j], trace[i].index)
                    /\ \A j \in 1..(i - 1) :
                          trace[j].type = "turn_start" => trace[j].index <= trace[i].index
              /\ IsTerminal(trace[i]) =>
                    /\ i = Len(trace)
                    /\ LET assistants == AssistantsOf(trace[i].message.messages)
                       IN  \A k \in DOMAIN assistants :
                               \E j \in 1..(i - 1) :
                                   /\ IsProxiedTerminal(trace[j], k - 1)
                                   /\ trace[j].message = assistants[k]
        /\ pc = "closed" => (trace # <<>> /\ IsTerminal(trace[Len(trace)]))

C36_Witness ==
    /\ adapter = "agent"
    /\ pc = "closed"
    /\ Len(trace) = 7
    /\ [i \in 1..7 |-> trace[i].type] =
          <<"turn_start", "assistant_event", "assistant_event", "tool_result",
            "turn_start", "assistant_event", "done">>
    /\ trace[2].message = NoMessage
    /\ IsProxiedTerminal(trace[3], 0)
    /\ IsProxiedTerminal(trace[6], 1)

\* the position of the last assistant message before position i
LastAssistantBefore(messages, i) ==
    CHOOSE a \in 0..(i - 1) :
        /\ a > 0 => messages[a].role = "assistant"
        /\ \A b \in (a + 1)..(i - 1) : messages[b].role # "assistant"

\* C37: the agent's history is append-only: a turn appends one assistant
\* message and then one tool entry per executed call, in call order, with the
\* id and name of its call; no step removes, reorders or changes an entry;
\* and the history the terminal event carries stays as it was when the event
\* was pushed.
C37_HistoryAppendOnly ==
    /\ [](adapter = "agent" =>
            /\ \A i \in DOMAIN local.messages :
                  LET a == LastAssistantBefore(local.messages, i)
                  IN  /\ local.messages[i].role \in {"assistant", "tool"}
                      /\ local.messages[i].role = "tool" =>
                            /\ a > 0
                            /\ i - a <= Len(local.messages[a].calls)
                            /\ local.messages[i].toolCallId = local.messages[a].calls[i - a].id
                            /\ local.messages[i].toolName = local.messages[a].calls[i - a].name
                      /\ (local.messages[i].role = "assistant" /\ a > 0) =>
                            i - a - 1 = Len(local.messages[a].calls)
            /\ pc = "closed" =>
                  trace[Len(trace)].message.messages = local.messages)
    /\ [][(adapter = "agent") =>
            /\ Len(local'.messages) \in {Len(local.messages), Len(local.messages) + 1}
            /\ SubSeq(local'.messages, 1, Len(local.messages)) = local.messages
            /\ pc = "closed" => local'.messages = local.messages]_vars

C37_Witness ==
    /\ adapter = "agent"
    /\ pc = "closed"
    /\ Len(local.messages) = 4
    /\ [i \in 1..4 |-> local.messages[i].role] = <<"assistant", "tool", "tool", "assistant">>
    /\ local.messages[2].toolCallId = 1
    /\ local.messages[3].toolCallId = 2
    /\ trace[Len(trace)].type = "done"

\* the invocations of the j-th call of the current turn
InvocationsOf(j) ==
    {i \in DOMAIN invoked : invoked[i].turn = local.turn /\ invoked[i].call = local.calls[j]}

\* C38: when the first call without a handler is the k-th call of a turn,
\* k > 1, the terminal error comes after the handlers of the calls 1..k-1
\* have each been invoked exactly once, and its history holds their tool
\* entries and none for the calls k..n; the handler is looked up call by
\* call, so a turn whose first call has a handler invokes it whatever the
\* later calls are.
C38_LookupPerCall ==
    /\ []((AtUnknownTool /\ local.next > 1) =>
            LET k == local.next
                result == trace[Len(trace)].message
                at == Len(result.messages) - (k - 1)
            IN  /\ pc = "closed"
                /\ trace[Len(trace)].type = "error"
                /\ result.errorMessage = "Unknown tool: " \o local.calls[k].name
                /\ at >= 1
                /\ result.messages[at].role = "assistant"
                /\ result.messages[at].calls = local.calls
                /\ \A j \in 1..(k - 1) :
                      /\ Cardinality(InvocationsOf(j)) = 1
                      /\ result.messages[at + j].role = "tool"
                      /\ result.messages[at + j].toolCallId = local.calls[j].id
                      /\ result.messages[at + j].toolName = local.calls[j].name
                /\ \A j \in k..Len(local.calls) : InvocationsOf(j) = {})
    /\ [][\A assistant \in AssistantResults :
            (/\ AgentAssistant(assistant)
             /\ assistant.stopReason \notin {"error", "aborted"}
             /\ assistant.calls # <<>>
             /\ assistant.calls[1].name \in handlers) =>
                /\ pc' = "handler"
                /\ invoked' = Append(invoked, [turn |-> local.turn, call |-> assistant.calls[1]])
          ]_vars

C38_Witness ==
    /\ AtUnknownTool
    /\ local.next = 2
    /\ Len(local.calls) = 2
    /\ pc = "closed"
    /\ Cardinality(InvocationsOf(1)) = 1
    /\ InvocationsOf(2) = {}
    /\ local.messages[Len(local.messages)].role = "tool"
    /\ local.messages[Len(local.messages)].toolCallId = local.calls[1].id

\* consumers that hold an event: received it, or were woken with it
HoldersOf(e) ==
    {c \in Consumers : e \in Range(received[c]) \/ InFlight(c) = <<e>>}
\* every accepted event is either still queued or held by one consumer
DeliveredOnce ==
    \A i \in DOMAIN trace :
        Cardinality(HoldersOf(trace[i]))
            + (IF trace[i] \in Range(stream.queue) THEN 1 ELSE 0) = 1
\* a later waiter leaves the waiting list only if every earlier one does
WaitersServedInOrder ==
    \A i, j \in DOMAIN stream.waiting :
        (i < j /\ stream.waiting[j] \notin Range(stream'.waiting))
            => stream.waiting[i] \notin Range(stream'.waiting)
\* nothing is left queued or in flight
AllHandedOver ==
    /\ stream.queue = <<>>
    /\ \A c \in Consumers : InFlight(c) = <<>>
\* C39: with several consumers iterating one stream, every accepted event
\* is held by exactly one consumer or still queued, each consumer's events
\* are in push order, suspended consumers leave the waiting list in the
\* order they joined it, and when the consumers keep pulling every event
\* ends up received by a consumer.
C39_EachEventToOneConsumer ==
    /\ [](DeliveredOnce
           /\ \A c \in Consumers : IsSubseq(received[c] \o InFlight(c), trace))
    /\ [][WaitersServedInOrder]_vars
    /\ <>[]AllHandedOver
\* two consumers were suspended, a push woke the first, the other one,
\* which has received an event before, is still waiting
C39_Witness ==
    \E c, d \in Consumers :
        /\ c # d
        /\ InFlight(c) # <<>>
        /\ d \in Range(stream.waiting)
        /\ received[d] # <<>>
        /\ received[c] # <<>>

\* the events whose message enters the agent's history
IsHistoryEvent(event) ==
    \/ event.type = "tool_result"
    \/ event.type = "assistant_event" /\ event.message # NoMessage
\* the position of the last turn_start event
LastTurnStart ==
    CHOOSE i \in DOMAIN trace :
        /\ trace[i].type = "turn_start"
        /\ \A j \in (i + 1)..Len(trace) : trace[j].type # "turn_start"
\* the assistant messages and tool entries of the events before position i
HistoryBefore(i) ==
    LET h == SelectSeq(SubSeq(trace, 1, i), IsHistoryEvent)
    IN  [j \in DOMAIN h |-> h[j].message]
\* C40: the agent never changes the caller's context.messages, and the
\* request of the last started turn carries context.messages followed by
\* exactly the assistant messages and tool entries of the events before its
\* turn_start, in order.
C40_ContextUntouched ==
    /\ []((adapter = "agent" /\ local.request # None) =>
            local.request[1] = local.context \o HistoryBefore(LastTurnStart))
    /\ [][(adapter = "agent") => local'.context = local.context]_vars
\* the run ended after a second turn whose request carried the caller's
\* message, the first turn's assistant message and its two tool entries
C40_Witness ==
    /\ adapter = "agent"
    /\ pc = "closed"
    /\ local.turn = 1
    /\ local.context # <<>>
    /\ Len(local.request[1]) = Len(local.context) + 3
    /\ [i \in 1..4 |-> local.request[1][i].role] = <<"user", "assistant", "tool", "tool">>

====
